---- MODULE Spec2Model ----
(***************************************************************************)
(* Model of the swim-data-tool classification engine                       *)
(* (src/src/swim_data_tool/commands/classify.py), of the event normalizer  *)
(* (models/events.py), of the record aggregator and the generate commands  *)
(* (services/record_generator.py, commands/generate.py) and of the import  *)
(* swimmers command (commands/import_swimmers.py).                         *)
(*                                                                         *)
(* Texts are tuples of one-character strings so that lower() and the       *)
(* substring tests of the code are computed, not assumed.  Dates are day   *)
(* numbers relative to 2023-01-01 (day 0).  An optional value is a         *)
(* sequence of length 0 (None) or 1.                                       *)
(***************************************************************************)
EXTENDS Integers, Sequences, FiniteSets, TLC

\* ------------------------------------------------------------------ bounds
\* longest swimmer career (rows of one swimmer CSV) that is explored
MaxLen == 3
\* number of _classify_swimmer calls made on the same file and decisions
MaxCalls == 2

\* --------------------------------------------------------- program constants
\* TRANSFER_RULE_CHANGE_DATE = datetime(2023, 1, 1), as a day number
TRANSFER_RULE_CHANGE_DATE == 0
POST_2023_TRANSFER_DAYS == 60
PRE_2023_TRANSFER_DAYS == 120

None == << >>
Some(x) == << x >>

\* ------------------------------------------------------------------- strings
UpperToLower ==
    [c \in {"A","B","C","D","E","F","G","H","I","J","K","L","M","N","O","P",
            "Q","R","S","T","U","V","W","X","Y","Z"} |->
        CASE c = "A" -> "a" [] c = "B" -> "b" [] c = "C" -> "c" [] c = "D" -> "d"
          [] c = "E" -> "e" [] c = "F" -> "f" [] c = "G" -> "g" [] c = "H" -> "h"
          [] c = "I" -> "i" [] c = "J" -> "j" [] c = "K" -> "k" [] c = "L" -> "l"
          [] c = "M" -> "m" [] c = "N" -> "n" [] c = "O" -> "o" [] c = "P" -> "p"
          [] c = "Q" -> "q" [] c = "R" -> "r" [] c = "S" -> "s" [] c = "T" -> "t"
          [] c = "U" -> "u" [] c = "V" -> "v" [] c = "W" -> "w" [] c = "X" -> "x"
          [] c = "Y" -> "y" [] c = "Z" -> "z"]

\* str.lower()
Lower(s) == [i \in 1..Len(s) |-> IF s[i] \in DOMAIN UpperToLower
                                 THEN UpperToLower[s[i]] ELSE s[i]]

\* Python's  sub in s
Contains(sub, s) ==
    \E i \in 0..(Len(s) - Len(sub)) : SubSeq(s, i + 1, i + Len(sub)) = sub

\* str.strip() is truthy: some character is not white space
StripNonEmpty(s) == \E i \in 1..Len(s) : s[i] # " "

\* --------------------------------------------------------------- input cells
\* An empty CSV cell is read by pandas as NaN.
NaN == << "NaN" >>
\* str(x) of a cell (classify.py:398)
StrOf(x) == IF x = NaN THEN << "n", "a", "n" >> ELSE x
\* str(x) if pd.notna(x) else ""  (classify.py:421)
TeamOf(x) == IF x = NaN THEN << >> ELSE x
\* A file written without a Team column: every row carries this marker.
NoColumn == << "no Team column" >>
\* "Team" in df.columns
HasTeamColumn(rows) == \A i \in 1..Len(rows) : rows[i].Team # NoColumn

\* A SwimDate cell: a well-formed date (its day number) or unparsable text.
GoodDate(d) == [ok |-> TRUE, day |-> d]
BadDate == [ok |-> FALSE, day |-> 0]
\* a conversion that reads unparsable text as the cutoff date
ToDatetime_Lenient(cell) == Some(cell.day)
\* try: pd.to_datetime(cell)  except: pass   -> the date, or None
ToDatetime(cell) == IF cell.ok THEN Some(cell.day) ELSE None

\* An Age cell: an integer, or text int() rejects.
GoodAge(a) == [ok |-> TRUE, val |-> a]
BadAge == [ok |-> FALSE, val |-> 0]

\* ------------------------------------------------------------- configuration
\* USA_SWIMMING_TEAM_NAMES=Ford
TeamNames == << << "F", "o", "r", "d" >> >>

Categories == {"high_school", "probationary", "college", "misc_unattached"}
DecisionValues == {"include", "exclude"}
\* the Decision Sets flags and prompts can produce
ValidDecisionSets == [Categories -> DecisionValues]

\* ---------------------------------------------------------------- predicates
IsTeamSwim(team) ==
    \E n \in 1..Len(TeamNames) : Contains(Lower(TeamNames[n]), Lower(team))

IsUnattached(team) ==
    Contains(<< "u","n","a","t","t","a","c","h","e","d" >>, Lower(team))

IsHighSchool(team) ==
    \/ Contains(<< "h","i","g","h"," ","s","c","h","o","o","l" >>, Lower(team))
    \/ Contains(<< "h","s","-" >>, Lower(team))
    \/ Contains(<< " ","h","s"," " >>, Lower(team))

IsCollegeAge(row) ==
    IF row.Age.ok THEN 18 <= row.Age.val /\ row.Age.val <= 22 ELSE FALSE

TransferDays(swim_date) ==
    IF swim_date >= TRANSFER_RULE_CHANGE_DATE
    THEN POST_2023_TRANSFER_DAYS
    ELSE PRE_2023_TRANSFER_DAYS

\* mutant: the window has no start
IsProbationary_NoStart(swim_date, first_team_date) ==
    swim_date < first_team_date

\* mutant: the window length is chosen by the transfer date
IsProbationary_ByTransferDate(swim_date, first_team_date) ==
    LET window_start == first_team_date - TransferDays(first_team_date)
    IN  window_start <= swim_date /\ swim_date < first_team_date

IsProbationary(swim_date, first_team_date) ==
    LET window_start == first_team_date - TransferDays(swim_date)
    IN  window_start <= swim_date /\ swim_date < first_team_date

\* ------------------------------------------------ _classify_swimmer, per row
\* team_indices[0] if team_indices else None  (mask built with str(x))
FirstTeamIdx(rows) ==
    LET team_indices == {i \in 1..Len(rows) : IsTeamSwim(StrOf(rows[i].Team))}
    IN  IF team_indices = {} THEN None
        ELSE Some(CHOOSE i \in team_indices : \A j \in team_indices : i <= j)

FirstTeamDate(rows, fti) ==
    IF fti # None THEN ToDatetime(rows[fti[1]].SwimDate) ELSE None

Labelled(cat, dec, why, days) ==
    [category |-> cat, decision |-> dec, rationale |-> why,
     transfer_rule_days |-> days]

\* mutant: a team swim takes its decision from the Decision Set
TeamBranch_Decided(d) ==
    Labelled("Official", d["misc_unattached"], "Club-affiliated swim", None)

\* classify.py:425-430
TeamBranch(d) ==
    Labelled("Official", "include", "Club-affiliated swim", None)

\* mutant: a probationary swim takes the misc_unattached decision
WindowBranch_WrongKey(row, ftd, d) ==
    LET swim_date == ToDatetime(row.SwimDate)
    IN  IF swim_date # None /\ IsProbationary(swim_date[1], ftd[1])
        THEN Labelled("Probationary", d["misc_unattached"],
                      "Probationary swim", Some(TransferDays(swim_date[1])))
        ELSE Labelled("MiscUnattached", d["misc_unattached"],
                      "Misc unattached (outside transfer window)", None)

\* classify.py:449-466, the branch taken for an unattached swim before the
\* first team swim once another club has been seen
WindowBranch(row, ftd, d) ==
    LET swim_date == ToDatetime(row.SwimDate)
    IN  IF swim_date # None /\ IsProbationary(swim_date[1], ftd[1])
        THEN IF swim_date[1] >= TRANSFER_RULE_CHANGE_DATE
             THEN Labelled("Probationary", d["probationary"],
                           "Probationary swim (60-day rule)",
                           Some(POST_2023_TRANSFER_DAYS))
             ELSE Labelled("Probationary", d["probationary"],
                           "Probationary swim (120-day rule)",
                           Some(PRE_2023_TRANSFER_DAYS))
        ELSE Labelled("MiscUnattached", d["misc_unattached"],
                      "Misc unattached (outside transfer window)", None)

\* mutant: the probationary window is tested before the high-school match
UnattachedBranch_WindowFirst(row, i, fti, ftd, seen, d) ==
    IF fti # None /\ i < fti[1] /\ ftd # None /\ seen
    THEN WindowBranch(row, ftd, d)
    ELSE IF IsHighSchool(TeamOf(row.Team))
    THEN Labelled("HighSchool", d["high_school"], "High school team swim", None)
    ELSE IF IsCollegeAge(row)
    THEN Labelled("College", d["college"],
                  "Unattached during college years", None)
    ELSE Labelled("MiscUnattached", d["misc_unattached"],
                  "Misc unattached swim", None)

\* mutant: the probationary window is tested at every position of the career
UnattachedBranch_AnyPosition(row, i, fti, ftd, seen, d) ==
    IF IsHighSchool(TeamOf(row.Team))
    THEN Labelled("HighSchool", d["high_school"], "High school team swim", None)
    ELSE IF fti # None /\ ftd # None /\ seen
    THEN WindowBranch(row, ftd, d)
    ELSE IF IsCollegeAge(row)
    THEN Labelled("College", d["college"],
                  "Unattached during college years", None)
    ELSE Labelled("MiscUnattached", d["misc_unattached"],
                  "Misc unattached swim", None)

\* classify.py:432-478
UnattachedBranch(row, i, fti, ftd, seen, d) ==
    IF IsHighSchool(TeamOf(row.Team))
    THEN Labelled("HighSchool", d["high_school"], "High school team swim", None)
    ELSE IF fti # None /\ i < fti[1] /\ ftd # None /\ seen
    THEN WindowBranch(row, ftd, d)
    ELSE IF IsCollegeAge(row)
    THEN Labelled("College", d["college"],
                  "Unattached during college years", None)
    ELSE Labelled("MiscUnattached", d["misc_unattached"],
                  "Misc unattached swim", None)

\* classify.py:480-493
OtherBranch(team) ==
    IF StripNonEmpty(team)
    THEN Labelled("OtherClub", "exclude", "Swam for different club", None)
    ELSE Labelled("Unknown", "exclude", "No team information", None)

\* mutant: the word "unattached" is tested before the team names
ClassifyRow_UnattachedFirst(row, i, fti, ftd, seen, d) ==
    LET team == TeamOf(row.Team)
    IN  IF IsUnattached(team)
        THEN UnattachedBranch(row, i, fti, ftd, seen, d)
        ELSE IF IsTeamSwim(team) THEN TeamBranch(d)
        ELSE OtherBranch(team)

\* the body of the loop at classify.py:420-493 for row i
ClassifyRow(row, i, fti, ftd, seen, d) ==
    LET team == TeamOf(row.Team)
    IN  IF IsTeamSwim(team) THEN TeamBranch(d)
        ELSE IF IsUnattached(team)
        THEN UnattachedBranch(row, i, fti, ftd, seen, d)
        ELSE OtherBranch(team)

\* mutant: an other-club swim sets the flag at every position
SeenAfter_AnyPosition(row, i, fti, seen) ==
    LET team == TeamOf(row.Team)
    IN  IF ~IsTeamSwim(team) /\ ~IsUnattached(team) /\ StripNonEmpty(team)
        THEN TRUE ELSE seen

\* classify.py:487-489, the value of seen_other_club after row i
SeenAfter(row, i, fti, seen) ==
    LET team == TeamOf(row.Team)
    IN  IF /\ ~IsTeamSwim(team) /\ ~IsUnattached(team) /\ StripNonEmpty(team)
           /\ (fti = None \/ i < fti[1])
        THEN TRUE ELSE seen

\* the stats key a category is counted under (classify.py:412-418)
StatKey(cat) ==
    CASE cat = "Official" -> "official"
      [] cat = "HighSchool" -> "high_school"
      [] cat = "Probationary" -> "probationary"
      [] cat = "College" -> "college"
      [] cat = "MiscUnattached" -> "misc_unattached"
      [] OTHER -> "none"

ZeroStats == [k \in {"official"} \cup Categories |-> 0]

\* df[df["classification_decision"] == v], as the row positions kept
RECURSIVE SelectDecision(_, _, _)
SelectDecision(c, v, i) ==
    IF i > Len(c) THEN << >>
    ELSE IF c[i].decision = v THEN << i >> \o SelectDecision(c, v, i + 1)
    ELSE SelectDecision(c, v, i + 1)

\* --------------------------------------------------------------------- state
VARIABLES
    df,               \* rows of the swimmer CSV being classified
    decisions,        \* the Decision Set handed to _classify_swimmer
    pc,               \* position in _classify_swimmer
    idx,              \* loop index of the row walk
    first_team_idx,
    first_team_date,
    seen_other_club,
    cls,              \* the classification columns of the rows walked so far
    stats,
    result,           \* returned official / excluded partitions of this call
    prev,             \* what the previous call on the same input returned
    calls,            \* completed _classify_swimmer calls
    cli_decisions,    \* the run-time flags given to the command
    config_file,      \* content of .swim-data-tool-classify-config.json
    df_team,          \* rows the record generator aggregates over
    prompted,         \* the answer to the prompt issued for each category
    df_normalized,    \* df_team with the normalized columns
    gen_args,         \* course, n and season of the generate command
    records,          \* returned by get_best_times_by_event
    top_n,            \* returned by get_top_n_by_event
    annual,           \* season records, team records and new records
    fn_in,            \* argument of a normalizer function under test
    fn_out,           \* what the function returned
    swimmer_files,    \* number of swimmer CSV files the run finds
    analysis,         \* the statistics _analyze_swims returned to run
    official_dir,     \* the swimmer's file under classified/official
    excluded_dir,     \* the swimmer's file under classified/excluded
    swimmers_df,      \* roster rows of the import command
    swimmers_dir,     \* names (stems) of the cached swimmer CSV files
    force,
    dry_run,
    to_download,      \* roster rows the import run decided to fetch
    dl_idx,           \* position of the download loop in to_download
    fetched,          \* get_swimmer_history calls of this run, with outcome
    earlier           \* get_swimmer_history calls of the runs before

vars == << df, decisions, pc, idx, first_team_idx, first_team_date,
           seen_other_club, cls, stats, result, prev, calls,
           cli_decisions, config_file, df_team, prompted,
           df_normalized, gen_args, records, top_n, annual,
           fn_in, fn_out,
           swimmer_files, analysis, official_dir, excluded_dir,
           swimmers_df, swimmers_dir, force, dry_run, to_download, dl_idx,
           fetched, earlier >>

\* the state of the import swimmers command
importVars == << swimmers_df, swimmers_dir, force, dry_run, to_download,
                 dl_idx, fetched, earlier >>

\* the files and statistics of a run of the classify command
runVars == << swimmer_files, analysis, official_dir, excluded_dir >>

\* the state outside _classify_swimmer and the generate commands
extVars == << fn_in, fn_out, runVars, importVars >>

\* the state of a generate command
aggVars == << df_normalized, gen_args, records, top_n, annual >>

EmptyResult == [official |-> << >>, excluded |-> << >>, labels |-> << >>,
                stats |-> ZeroStats]

\* -------------------------------------------------------------------- inputs
T_Team == << "F","O","R","D" >>
T_Unattached == << "U","n","a","t","t","a","c","h","e","d" >>
T_UnattachedHS == << "U","n","a","t","t","a","c","h","e","d"," ","H","S","-","1" >>
T_Other == << "P","i","m","a" >>
T_TeamUnattached == << "F","o","r","d","-","U","n","a","t","t","a","c","h","e","d" >>

Swim(team, date, age) == [Team |-> team, SwimDate |-> date, Age |-> age]

\* The swims careers are built from.  With the team's first swim on day 100
\* the 60-day window is [40, 100) and the 120-day window is [-20, 100); with
\* it on day 40 they are [-20, 40) and [-80, 40).
SwimPool ==
    { Swim(T_Team, GoodDate(100), GoodAge(17)),
      Swim(T_TeamUnattached, GoodDate(40), GoodAge(19)),
      Swim(T_Other, GoodDate(-50), GoodAge(19)),
      Swim(T_Unattached, GoodDate(40), GoodAge(19)),
      Swim(T_Unattached, GoodDate(39), GoodAge(19)),
      Swim(T_Unattached, GoodDate(-20), GoodAge(17)),
      Swim(T_Unattached, GoodDate(-21), BadAge),
      Swim(T_Unattached, BadDate, GoodAge(23)),
      Swim(T_UnattachedHS, GoodDate(40), GoodAge(19)),
      Swim(NaN, GoodDate(0), GoodAge(17)) }

Careers == UNION { [1..n -> SwimPool] : n \in 0..MaxLen }

\* ------------------------------------------------- decisions of one run
\* A flag is "include", "exclude" or not given (None, written "").
FlagValues == {"", "include", "exclude"}
NoFlags == [c \in Categories |-> ""]
\* A value of the saved config: a decision, some other text, or no value.
SavedValues == {"", "include", "exclude", "yes"}
\* no config file, or one that json.load rejects (classify.py:558-566)
NoConfig == [c \in Categories |-> ""]

\* the saved value is looked up before the flag
DecisionFor_SavedFirst(c, cli, saved, answers) ==
    IF saved[c] # "" THEN saved[c]
    ELSE IF cli[c] # "" THEN cli[c]
    ELSE IF answers[c] THEN "include" ELSE "exclude"

\* one category of _get_decisions (classify.py:298-310 and its three copies)
DecisionFor(c, cli, saved, answers) ==
    IF cli[c] # "" THEN cli[c]
    ELSE IF saved[c] # "" THEN saved[c]
    ELSE IF answers[c] THEN "include" ELSE "exclude"

\* classify.py:290-359
GetDecisions(cli, saved, answers) ==
    [c \in Categories |-> DecisionFor(c, cli, saved, answers)]

\* the user is asked whatever the saved configuration holds
PromptFor_NoConfig(c, cli, saved, answers) ==
    IF cli[c] = ""
    THEN IF answers[c] THEN "include" ELSE "exclude"
    ELSE ""

\* Confirm.ask is reached in the else branch only (classify.py:303-310):
\* the answer given, "" when the category is not asked
PromptFor(c, cli, saved, answers) ==
    IF cli[c] = "" /\ saved[c] = ""
    THEN IF answers[c] THEN "include" ELSE "exclude"
    ELSE ""

\* the four decisions _save_config writes (classify.py:568-579)
SaveConfig(d) == [c \in Categories |-> d[c]]

\* ------------------------------------------------------------------- actions
\* mutant: the flag of the previous call is kept
InitialSeen_Stale(old) == old

\* seen_other_club = False  (classify.py:411)
InitialSeen(old) == FALSE

\* classify.py:361-418: read the file, return early when it has no Team
\* column or no rows,
\* otherwise add the classification columns and find the first team swim
ClassifyBegin ==
    /\ pc = "begin"
    /\ IF ~HasTeamColumn(df) \/ Len(df) = 0
       THEN /\ result' = EmptyResult
            /\ pc' = "done"
            /\ calls' = calls + 1
            /\ UNCHANGED << idx, first_team_idx, first_team_date,
                            seen_other_club, cls, stats >>
       ELSE /\ first_team_idx' = FirstTeamIdx(df)
            /\ first_team_date' = FirstTeamDate(df, FirstTeamIdx(df))
            /\ seen_other_club' = InitialSeen(seen_other_club)
            /\ stats' = ZeroStats
            /\ cls' = << >>
            /\ idx' = 1
            /\ pc' = "loop"
            /\ UNCHANGED << result, calls >>
    /\ UNCHANGED << df, decisions, prev, cli_decisions, config_file, df_team >>
    /\ UNCHANGED << prompted, aggVars >>
    /\ UNCHANGED extVars

\* one iteration of  for idx in df.index  (classify.py:420-493)
ClassifyStep ==
    /\ pc = "loop"
    /\ idx <= Len(df)
    /\ LET c == ClassifyRow(df[idx], idx, first_team_idx, first_team_date,
                            seen_other_club, decisions)
           k == StatKey(c.category)
       IN  /\ cls' = Append(cls, c)
           /\ stats' = IF k \in DOMAIN stats
                       THEN [stats EXCEPT ![k] = @ + 1] ELSE stats
    /\ seen_other_club' = SeenAfter(df[idx], idx, first_team_idx, seen_other_club)
    /\ idx' = idx + 1
    /\ UNCHANGED << df, decisions, pc, first_team_idx, first_team_date,
                    result, prev, calls, cli_decisions, config_file, df_team >>
    /\ UNCHANGED << prompted, aggVars >>
    /\ UNCHANGED extVars

\* the split and return at classify.py:495-503
ClassifySplit ==
    /\ pc = "loop"
    /\ idx > Len(df)
    /\ result' = [official |-> SelectDecision(cls, "include", 1),
                  excluded |-> SelectDecision(cls, "exclude", 1),
                  labels |-> cls,
                  stats |-> stats]
    /\ pc' = "done"
    /\ calls' = calls + 1
    /\ UNCHANGED << df, decisions, idx, first_team_idx, first_team_date,
                    seen_other_club, cls, stats, prev, cli_decisions,
                    config_file, df_team >>
    /\ UNCHANGED << prompted, aggVars >>
    /\ UNCHANGED extVars

\* _classify_swimmer is called again on the same file with the same
\* decisions (the loop of run, classify.py:117-124, in a repeated run)
CallAgain ==
    /\ pc = "done"
    /\ calls < MaxCalls
    /\ prev' = Some(result)
    /\ pc' = "begin"
    /\ UNCHANGED << df, decisions, idx, first_team_idx, first_team_date,
                    seen_other_club, cls, stats, result, calls, cli_decisions,
                    config_file, df_team >>
    /\ UNCHANGED << prompted, aggVars >>
    /\ UNCHANGED extVars

\* the locals of _classify_swimmer before its first call
FreshLocals ==
    /\ idx = 1
    /\ first_team_idx = None
    /\ first_team_date = None
    /\ seen_other_club = FALSE
    /\ cls = << >>
    /\ stats = ZeroStats
    /\ result = EmptyResult
    /\ prev = None
    /\ calls = 0
    /\ df_team = << >>
    /\ prompted = NoFlags
    /\ df_normalized = << >>
    /\ gen_args = None
    /\ records = None
    /\ top_n = None
    /\ annual = None
    /\ analysis = None
    /\ official_dir = None
    /\ excluded_dir = None
    /\ to_download = << >>
    /\ dl_idx = 1
    /\ fetched = << >>
    /\ earlier = << >>

\* no import under way
NoImport ==
    /\ swimmers_df = << >>
    /\ swimmers_dir = { }
    /\ force = FALSE
    /\ dry_run = FALSE

\* ... one swimmer file, and no normalizer function called on its own
FreshCall ==
    /\ FreshLocals
    /\ NoImport
    /\ swimmer_files = 1
    /\ fn_in = None
    /\ fn_out = None

Init ==
    /\ df \in Careers
    /\ decisions \in ValidDecisionSets
    /\ cli_decisions = NoFlags
    /\ config_file = NoConfig
    /\ pc = "begin"
    /\ FreshCall

Next == ClassifyBegin \/ ClassifyStep \/ ClassifySplit

\* one call of _classify_swimmer on every career and Decision Set
Spec == Init /\ [][Next]_vars

NextRerun == ClassifyBegin \/ ClassifyStep \/ ClassifySplit \/ CallAgain

\* the same file classified MaxCalls times
SpecRerun == Init /\ [][NextRerun]_vars

\* ------------------------------------------------------ _analyze_swims
\* the counters one row adds to (classify.py:240-283)
AnalyzeRow(row, i, fti, ftd, seen) ==
    LET team == TeamOf(row.Team)
        swim_date == ToDatetime(row.SwimDate)
    IN  IF IsTeamSwim(team) THEN {"club_affiliated"}
        ELSE IF IsUnattached(team)
        THEN {"unattached"} \cup
             ( IF IsHighSchool(team) THEN {"high_school"}
               ELSE IF fti # None /\ i < fti[1] /\ ftd # None
               THEN IF seen
                    THEN IF swim_date # None
                            /\ IsProbationary(swim_date[1], ftd[1])
                         THEN {"probationary",
                               IF swim_date[1] >= TRANSFER_RULE_CHANGE_DATE
                               THEN "probationary_60" ELSE "probationary_120"}
                         ELSE {"misc_unattached"}
                    ELSE {"misc_unattached"}
               ELSE IF IsCollegeAge(row) THEN {"college"}
               ELSE {"misc_unattached"} )
        ELSE IF StripNonEmpty(team) THEN {"club_affiliated"}
        ELSE { }

RECURSIVE AnalyzeFrom(_, _, _, _, _, _)
\* the loop over the rows of one file (classify.py:239-283)
AnalyzeFrom(rows, i, fti, ftd, seen, st) ==
    IF i > Len(rows) THEN st
    ELSE LET keys == AnalyzeRow(rows[i], i, fti, ftd, seen)
         IN  AnalyzeFrom(rows, i + 1, fti, ftd,
                         SeenAfter(rows[i], i, fti, seen),
                         [k \in DOMAIN st |->
                             IF k \in keys THEN st[k] + 1 ELSE st[k]])

\* classify.py:204-288 over the files found: a file with no Team column or
\* no rows is skipped
AnalyzeSwims(files, rows) ==
    LET zero ==
          [k \in {"total_swims", "club_affiliated", "unattached",
                  "high_school", "probationary", "probationary_60",
                  "probationary_120", "college", "misc_unattached"} |-> 0]
    IN  IF files = 0 \/ ~HasTeamColumn(rows) \/ Len(rows) = 0 THEN zero
        ELSE AnalyzeFrom(rows, 1, FirstTeamIdx(rows),
                         FirstTeamDate(rows, FirstTeamIdx(rows)), FALSE,
                         [zero EXCEPT !["total_swims"] = Len(rows)])

\* The careers a whole run is explored on: every career of at most one
\* swim, and one career for each group of labels.
RunCareers ==
    { c \in Careers : Len(c) <= 1 } \cup
    { << Swim(T_Other, GoodDate(-50), GoodAge(19)),
         Swim(T_Unattached, GoodDate(40), GoodAge(19)),
         Swim(T_Team, GoodDate(100), GoodAge(17)) >>,
      << Swim(T_UnattachedHS, GoodDate(40), GoodAge(19)),
         Swim(T_Unattached, GoodDate(40), GoodAge(19)),
         Swim(T_Unattached, GoodDate(-20), GoodAge(17)) >>,
      << Swim(NaN, GoodDate(0), GoodAge(17)),
         Swim(T_Team, GoodDate(100), GoodAge(17)) >>,
      << Swim(T_Unattached, GoodDate(40), GoodAge(19)),
         Swim(T_Team, GoodDate(100), GoodAge(17)) >> }

\* run up to the classification loop (classify.py:40-115): the statistics
\* are printed as percentages of the total number of swims, the decisions
\* are acquired and saved
RunStart ==
    /\ pc = "start"
    /\ analysis' = IF swimmer_files = 0 THEN analysis
                   ELSE Some(AnalyzeSwims(swimmer_files, df))
    /\ \E flags \in [Categories -> FlagValues], answers \in [Categories -> BOOLEAN] :
          /\ cli_decisions' = flags
          /\ IF swimmer_files = 0
             THEN \* no swimmer CSV files found: return (classify.py:57-59)
                  /\ pc' = "finished"
                  /\ UNCHANGED << decisions, config_file, prompted >>
             ELSE IF analysis'[1]["total_swims"] = 0
             THEN \* ZeroDivisionError at classify.py:67
                  /\ pc' = "raised"
                  /\ UNCHANGED << decisions, config_file, prompted >>
             ELSE /\ decisions' = GetDecisions(flags, config_file, answers)
                  /\ prompted' = [c \in Categories |->
                                     PromptFor(c, flags, config_file, answers)]
                  /\ config_file' = SaveConfig(GetDecisions(flags, config_file, answers))
                  /\ pc' = "begin"
    /\ UNCHANGED << df, idx, first_team_idx, first_team_date, seen_other_club,
                    cls, stats, result, prev, calls, df_team >>
    /\ UNCHANGED aggVars
    /\ UNCHANGED << fn_in, fn_out, swimmer_files, official_dir, excluded_dir >>
    /\ UNCHANGED importVars

\* after _classify_swimmer returns (classify.py:126-176): a partition is
\* written only when it is not empty, otherwise what the directory holds
\* stays; then the summary prints percentages of the number of swims written
RunSummary ==
    /\ pc = "done"
    /\ official_dir' = IF result.official # << >>
                       THEN Some(result.official) ELSE official_dir
    /\ excluded_dir' = IF result.excluded # << >>
                       THEN Some(result.excluded) ELSE excluded_dir
    /\ pc' = IF Len(result.official) + Len(result.excluded) = 0
             THEN "raised"     \* ZeroDivisionError at classify.py:164
             ELSE "finished"
    /\ UNCHANGED << df, decisions, idx, first_team_idx, first_team_date,
                    seen_other_club, cls, stats, result, prev, calls,
                    cli_decisions, config_file, df_team >>
    /\ UNCHANGED << prompted, aggVars >>
    /\ UNCHANGED << fn_in, fn_out, swimmer_files, analysis >>
    /\ UNCHANGED importVars

\* a swimmers directory with one file, or with none
InitRun ==
    /\ df \in RunCareers
    /\ swimmer_files \in {0, 1}
    /\ swimmer_files = 0 => df = << >>
    /\ config_file \in [Categories -> SavedValues]
    /\ cli_decisions = NoFlags
    /\ decisions = NoConfig
    /\ pc = "start"
    /\ FreshLocals
    /\ NoImport
    /\ fn_in = None
    /\ fn_out = None

NextRun ==
    RunStart \/ ClassifyBegin \/ ClassifyStep \/ ClassifySplit \/ RunSummary

\* one run of the classify command over one swimmer file
SpecRun == InitRun /\ [][NextRun]_vars

\* ----------------------------------------------------- generate records
\* team_names of the generate commands: USA_SWIMMING_TEAM_NAMES split at
\* commas and stripped (generate.py:30-31)
GenerateTeamNames == TeamNames

\* RecordGenerator.filter_team_swims: the rows whose Team cell matches one
\* of the names, case-insensitively; an empty cell never matches
RECURSIVE FilterTeamSwims(_, _, _)
FilterTeamSwims(rows, names, i) ==
    IF i > Len(rows) THEN << >>
    ELSE IF /\ rows[i].Team # NaN
            /\ \E n \in 1..Len(names) :
                  Contains(Lower(names[n]), Lower(rows[i].Team))
         THEN << i >> \o FilterTeamSwims(rows, names, i + 1)
         ELSE FilterTeamSwims(rows, names, i + 1)

\* GenerateRecordsCommand.run up to the event parsing (generate.py:51-75),
\* the same in the top-N and annual commands (generate.py:197-210, 344-357):
\* the swims are loaded from data/raw/swimmers, the files classify reads,
\* and filtered by team name
GenerateLoad ==
    /\ pc \in {"done", "raw"}
    /\ Len(df) > 0
    /\ df_team' = FilterTeamSwims(df, GenerateTeamNames, 1)
    /\ pc' = "generated"
    /\ UNCHANGED << df, decisions, idx, first_team_idx, first_team_date,
                    seen_other_club, cls, stats, result, prev, calls,
                    cli_decisions, config_file >>
    /\ UNCHANGED << prompted, aggVars >>
    /\ UNCHANGED extVars

NextGenerate == ClassifyBegin \/ ClassifyStep \/ ClassifySplit \/ GenerateLoad

\* a career is classified, then a generate command loads its input
SpecGenerate == Init /\ [][NextGenerate]_vars

\* ---------------------------------------------------------- event normalizer
\* models/events.py
AGE_GROUPS == << "10U", "11-12", "13-14", "15-16", "17-18", "Open" >>

SCY_EVENTS ==
    << << "5", "0", "-", "f", "r", "e", "e" >>,
       << "1", "0", "0", "-", "f", "r", "e", "e" >>,
       << "2", "0", "0", "-", "f", "r", "e", "e" >>,
       << "5", "0", "0", "-", "f", "r", "e", "e" >>,
       << "1", "0", "0", "0", "-", "f", "r", "e", "e" >>,
       << "1", "6", "5", "0", "-", "f", "r", "e", "e" >>,
       << "5", "0", "-", "b", "a", "c", "k" >>,
       << "1", "0", "0", "-", "b", "a", "c", "k" >>,
       << "2", "0", "0", "-", "b", "a", "c", "k" >>,
       << "5", "0", "-", "b", "r", "e", "a", "s", "t" >>,
       << "1", "0", "0", "-", "b", "r", "e", "a", "s", "t" >>,
       << "2", "0", "0", "-", "b", "r", "e", "a", "s", "t" >>,
       << "5", "0", "-", "f", "l", "y" >>,
       << "1", "0", "0", "-", "f", "l", "y" >>,
       << "2", "0", "0", "-", "f", "l", "y" >>,
       << "1", "0", "0", "-", "i", "m" >>,
       << "2", "0", "0", "-", "i", "m" >>,
       << "4", "0", "0", "-", "i", "m" >> >>

LCM_EVENTS ==
    << << "5", "0", "-", "f", "r", "e", "e" >>,
       << "1", "0", "0", "-", "f", "r", "e", "e" >>,
       << "2", "0", "0", "-", "f", "r", "e", "e" >>,
       << "4", "0", "0", "-", "f", "r", "e", "e" >>,
       << "8", "0", "0", "-", "f", "r", "e", "e" >>,
       << "1", "5", "0", "0", "-", "f", "r", "e", "e" >>,
       << "5", "0", "-", "b", "a", "c", "k" >>,
       << "1", "0", "0", "-", "b", "a", "c", "k" >>,
       << "2", "0", "0", "-", "b", "a", "c", "k" >>,
       << "5", "0", "-", "b", "r", "e", "a", "s", "t" >>,
       << "1", "0", "0", "-", "b", "r", "e", "a", "s", "t" >>,
       << "2", "0", "0", "-", "b", "r", "e", "a", "s", "t" >>,
       << "5", "0", "-", "f", "l", "y" >>,
       << "1", "0", "0", "-", "f", "l", "y" >>,
       << "2", "0", "0", "-", "f", "l", "y" >>,
       << "2", "0", "0", "-", "i", "m" >>,
       << "4", "0", "0", "-", "i", "m" >> >>

\* SCM_EVENTS = LCM_EVENTS.copy()
SCM_EVENTS == LCM_EVENTS

\* str.upper()
Upper(s) ==
    [i \in 1..Len(s) |->
        IF \E u \in DOMAIN UpperToLower : UpperToLower[u] = s[i]
        THEN CHOOSE u \in DOMAIN UpperToLower : UpperToLower[u] = s[i]
        ELSE s[i]]

RECURSIVE LStrip(_)
LStrip(s) == IF Len(s) > 0 /\ s[1] = " " THEN LStrip(Tail(s)) ELSE s
RECURSIVE RStrip(_)
RStrip(s) ==
    IF Len(s) > 0 /\ s[Len(s)] = " "
    THEN RStrip(SubSeq(s, 1, Len(s) - 1)) ELSE s
\* str.strip()
Strip(s) == RStrip(LStrip(s))

\* str.split(sep): the fields between the separators, empty ones included
RECURSIVE SplitAt(_, _)
SplitAt(s, sep) ==
    IF \E i \in 1..Len(s) : s[i] = sep
    THEN LET i == CHOOSE k \in 1..Len(s) :
                     s[k] = sep /\ \A j \in 1..(k - 1) : s[j] # sep
         IN  << SubSeq(s, 1, i - 1) >> \o SplitAt(SubSeq(s, i + 1, Len(s)), sep)
    ELSE << s >>

NonEmpty(s) == Len(s) > 0
\* str.split(): the fields between runs of white space
Split(s) == SelectSeq(SplitAt(s, " "), NonEmpty)

NullEvent == [distance |-> None, stroke |-> None, course |-> None]

\* stroke_map.get(stroke_code)  (events.py:100-111)
StrokeMap(code) ==
    CASE code = << "F", "R" >> -> Some(<< "f", "r", "e", "e" >>)
      [] code = << "B", "K" >> -> Some(<< "b", "a", "c", "k" >>)
      [] code = << "B", "A", "C", "K" >> -> Some(<< "b", "a", "c", "k" >>)
      [] code = << "B", "R" >> -> Some(<< "b", "r", "e", "a", "s", "t" >>)
      [] code = << "B", "R", "E", "A", "S", "T" >> -> Some(<< "b", "r", "e", "a", "s", "t" >>)
      [] code = << "F", "L" >> -> Some(<< "f", "l", "y" >>)
      [] code = << "F", "L", "Y" >> -> Some(<< "f", "l", "y" >>)
      [] code = << "I", "M" >> -> Some(<< "i", "m" >>)
      [] OTHER -> None

\* events.py:81-117; an empty cell (NaN) is not a str
ParseApiEvent(event_str) ==
    IF event_str = NaN \/ Len(event_str) = 0 THEN NullEvent
    ELSE LET parts == Split(Strip(event_str))
         IN  IF Len(parts) < 3 THEN NullEvent
             ELSE IF StrokeMap(Upper(parts[2])) = None THEN NullEvent
             ELSE [distance |-> Some(parts[1]),
                   stroke |-> StrokeMap(Upper(parts[2])),
                   course |-> Some(Lower(Upper(parts[3])))]

\* f"{distance}-{stroke}"  (events.py:120-130)
CreateEventCode(distance, stroke) == distance \o << "-" >> \o stroke

\* ----- floats: a time is a number of hundredths of a second, or inf, -inf
\* or nan.  float() is modelled on optionally signed decimal numerals with
\* at most two decimals (further decimals are dropped) and on the words
\* nan, inf and infinity; any other text is a ValueError.
Num(v) == [kind |-> "num", val |-> v]
Inf == [kind |-> "inf", val |-> 0]
NegInf == [kind |-> "-inf", val |-> 0]
NanTime == [kind |-> "nan", val |-> 0]
ValueError == [kind |-> "error", val |-> 0]

DigitVal ==
    [c \in {"0","1","2","3","4","5","6","7","8","9"} |->
        CASE c = "0" -> 0 [] c = "1" -> 1 [] c = "2" -> 2 [] c = "3" -> 3
          [] c = "4" -> 4 [] c = "5" -> 5 [] c = "6" -> 6 [] c = "7" -> 7
          [] c = "8" -> 8 [] c = "9" -> 9]

IsDigits(s) == \A i \in 1..Len(s) : s[i] \in DOMAIN DigitVal

RECURSIVE Numeral(_)
Numeral(s) ==
    IF Len(s) = 0 THEN 0
    ELSE Numeral(SubSeq(s, 1, Len(s) - 1)) * 10 + DigitVal[s[Len(s)]]

Negate(x) ==
    CASE x.kind = "num" -> Num(0 - x.val)
      [] x.kind = "inf" -> NegInf
      [] x.kind = "-inf" -> Inf
      [] OTHER -> x

\* float() of an unsigned text
Unsigned(s) ==
    LET parts == SplitAt(s, ".")
        whole == parts[1]
        frac == IF Len(parts) = 2 THEN parts[2] ELSE << >>
    IN  IF Lower(s) = << "n", "a", "n" >> THEN NanTime
        ELSE IF Lower(s) \in { << "i", "n", "f" >>,
                                << "i", "n", "f", "i", "n", "i", "t", "y" >> }
             THEN Inf
        ELSE IF /\ Len(parts) <= 2
                /\ IsDigits(whole) /\ IsDigits(frac)
                /\ Len(whole) + Len(frac) > 0
             THEN Num(Numeral(whole) * 100
                      + Numeral(SubSeq(frac \o << "0", "0" >>, 1, 2)))
        ELSE ValueError

\* float(text)
Float(text) ==
    LET s == Strip(text)
    IN  IF Len(s) > 0 /\ s[1] = "-" THEN Negate(Unsigned(Tail(s)))
        ELSE IF Len(s) > 0 /\ s[1] = "+" THEN Unsigned(Tail(s))
        ELSE Unsigned(s)

\* x * k for a positive integer k
Times(x, k) == IF x.kind = "num" THEN Num(x.val * k) ELSE x

\* x + y
Plus(x, y) ==
    IF x.kind = "error" \/ y.kind = "error" THEN ValueError
    ELSE IF x.kind = "nan" \/ y.kind = "nan" THEN NanTime
    ELSE IF x.kind = "num" /\ y.kind = "num" THEN Num(x.val + y.val)
    ELSE IF x.kind = "num" THEN y
    ELSE IF y.kind = "num" THEN x
    ELSE IF x.kind = y.kind THEN x
    ELSE NanTime

\* except (ValueError, AttributeError): return float("inf")
OrInf(x) == IF x.kind = "error" THEN Inf ELSE x

\* events.py:133-159; an empty cell (NaN) is truthy and str() makes it "nan"
ConvertTimeToSeconds(time_str) ==
    IF time_str = NaN THEN NanTime
    ELSE IF Len(time_str) = 0 THEN Inf
    ELSE LET s == Strip(time_str)
             parts == SplitAt(s, ":")
         IN  IF Len(parts) = 2
             THEN OrInf(Plus(Times(Float(parts[1]), 60), Float(parts[2])))
             ELSE IF Len(parts) = 3
             THEN OrInf(Plus(Plus(Times(Float(parts[1]), 3600),
                                  Times(Float(parts[2]), 60)),
                             Float(parts[3])))
             ELSE OrInf(Float(s))

\* events.py:162-187 on f = float(age): a ValueError of float(), and the
\* ValueError int() raises on NaN, give "Open"; the OverflowError int()
\* raises on an infinite age is not caught
DetermineAgeGroup(f) ==
    LET \* int() of a finite float drops the fraction, towards zero
        age_int == IF f.val >= 0 THEN f.val \div 100
                   ELSE 0 - ((0 - f.val) \div 100)
    IN  IF f.kind \in {"error", "nan"} THEN "Open"
        ELSE IF f.kind \in {"inf", "-inf"} THEN "OverflowError"
        ELSE IF age_int <= 10 THEN "10U"
        ELSE IF age_int <= 12 THEN "11-12"
        ELSE IF age_int <= 14 THEN "13-14"
        ELSE IF age_int <= 16 THEN "15-16"
        ELSE IF age_int <= 18 THEN "17-18"
        ELSE "Open"

\* ---------------------------------------------------------- record aggregator
\* one row of parse_and_normalize_events (record_generator.py:159-183): the
\* row of the loaded data it belongs to and the columns added to it
NormalizeRow(rows, i) ==
    LET parsed == ParseApiEvent(rows[i].Event)
    IN  [row |-> i,
         Name |-> rows[i].Name,
         event_course |-> parsed.course,
         event_code |-> IF parsed.distance # None /\ parsed.stroke # None
                        THEN Some(CreateEventCode(parsed.distance[1],
                                                  parsed.stroke[1]))
                        ELSE None,
         time_seconds |-> ConvertTimeToSeconds(rows[i].SwimTime),
         \* float(age) of an Age cell of the loaded table
         age_group |-> DetermineAgeGroup(IF rows[i].Age.ok
                                         THEN Num(rows[i].Age.val * 100)
                                         ELSE ValueError)]

\* record_generator.py:139-183 on the rows selected by filter_team_swims; an
\* empty table is returned as it is, without the normalized columns
ParseAndNormalizeEvents(rows, selected) ==
    [k \in 1..Len(selected) |-> NormalizeRow(rows, selected[k])]

\* every time passes the filter
FiniteTime_All(t) == TRUE

\* time_seconds < float("inf")  (record_generator.py:204, 374)
FiniteTime(t) == t.kind \in {"num", "-inf"}

\* a < b on the floats that pass the filter
TimeLess(a, b) ==
    \/ a.kind = "-inf" /\ b.kind = "num"
    \/ a.kind = "num" /\ b.kind = "num" /\ a.val < b.val

\* sort_values uses pandas' default quicksort, which is not stable: rows
\* with equal times come out in an order the input does not determine.  Two
\* of the possible orders are explored, input order and its reverse.
TieOrders == {"input", "reverse"}

Before(tbl, p, q, ties) ==
    \/ TimeLess(tbl[p].time_seconds, tbl[q].time_seconds)
    \/ /\ ~TimeLess(tbl[q].time_seconds, tbl[p].time_seconds)
       /\ IF ties = "input" THEN p < q ELSE p > q

RECURSIVE InputOrder(_)
InputOrder(S) ==
    IF S = {} THEN << >>
    ELSE LET m == CHOOSE p \in S : \A q \in S : p <= q
         IN  << m >> \o InputOrder(S \ {m})

\* the rows are left in input order
SortValues_Unsorted(tbl, S, ties) == InputOrder(S)

\* df.sort_values("time_seconds") on the rows at positions S of tbl
RECURSIVE SortValues(_, _, _)
SortValues(tbl, S, ties) ==
    IF S = {} THEN << >>
    ELSE LET m == CHOOSE p \in S : \A q \in S \ {p} : Before(tbl, p, q, ties)
         IN  << m >> \o SortValues(tbl, S \ {m}, ties)

\* no row is dropped
DropDuplicates_None(tbl, order) == order

\* drop_duplicates(subset=["Name"], keep="first")
DropDuplicates(tbl, order) ==
    LET first(k) == \A j \in 1..(k - 1) : tbl[order[j]].Name # tbl[order[k]].Name
        RECURSIVE keep(_)
        keep(k) == IF k > Len(order) THEN << >>
                   ELSE IF first(k) THEN << order[k] >> \o keep(k + 1)
                   ELSE keep(k + 1)
    IN  keep(1)

\* df.head(n)
HeadN(order, n) == SubSeq(order, 1, IF n < Len(order) THEN n ELSE Len(order))

\* RecordEntry(...) built from row p of tbl (record_generator.py:253-263)
Entry(rows, tbl, p, event_code, age_group) ==
    [event_code |-> event_code,
     age_group |-> age_group,
     swimmer_name |-> tbl[p].Name,
     time |-> rows[tbl[p].row].SwimTime,
     date |-> rows[tbl[p].row].SwimDate,
     time_seconds |-> tbl[p].time_seconds,
     row |-> tbl[p].row]

EventList(course) ==
    CASE course = << "s", "c", "y" >> -> SCY_EVENTS
      [] course = << "l", "c", "m" >> -> LCM_EVENTS
      [] course = << "s", "c", "m" >> -> SCM_EVENTS
      [] OTHER -> << >>

\* the rows get_best_times_by_event and get_top_n_by_event work on
\* (record_generator.py:197-204, 367-374)
CourseRows(tbl, course) ==
    { p \in 1..Len(tbl) : /\ tbl[p].event_course = Some(course)
                          /\ FiniteTime(tbl[p].time_seconds) }

\* record_generator.py:185-269, as the set of the entries of the nested dict
GetBestTimesByEvent(rows, tbl, course, ties) ==
    LET df_course == CourseRows(tbl, course)
        events == { EventList(course)[k] : k \in 1..Len(EventList(course)) }
        df_age(e, g) == { p \in df_course :
                             /\ tbl[p].event_code = Some(e)
                             /\ (g = "Open" \/ tbl[p].age_group = g) }
        best(e, g) == DropDuplicates(tbl, SortValues(tbl, df_age(e, g), ties))[1]
    IN  { Entry(rows, tbl, best(b[1], b[2]), b[1], b[2]) :
            b \in { c \in events \X { AGE_GROUPS[k] : k \in 1..Len(AGE_GROUPS) } :
                      df_age(c[1], c[2]) # {} } }

\* record_generator.py:351-424, as the set of the lists of the dict
GetTopNByEvent(rows, tbl, course, n, ties) ==
    LET df_course == CourseRows(tbl, course)
        events == { EventList(course)[k] : k \in 1..Len(EventList(course)) }
        df_event(e) == { p \in df_course : tbl[p].event_code = Some(e) }
        df_top_n(e) ==
            HeadN(DropDuplicates(tbl, SortValues(tbl, df_event(e), ties)), n)
    IN  { [event_code |-> e,
           entries |-> [k \in 1..Len(df_top_n(e)) |->
                           Entry(rows, tbl, df_top_n(e)[k], e, "All-Time")]] :
            e \in { c \in events : df_event(c) # {} } }

\* the calendar year of a day number (2022 to 2024 are exact)
YearOf(day) ==
    IF day < -365 THEN 2021
    ELSE IF day < 0 THEN 2022
    ELSE IF day < 365 THEN 2023
    ELSE IF day < 731 THEN 2024
    ELSE 2025

\* record_generator.py:496-515: pd.to_datetime(errors="coerce") gives NaT,
\* whose year equals no season
FilterBySeason(rows, tbl, season) ==
    SelectSeq(tbl, LAMBDA r : /\ rows[r.row].SwimDate.ok
                              /\ YearOf(rows[r.row].SwimDate.day) = season)

\* generate_annual_summary_markdown, record_generator.py:536-545: the season
\* entries listed as new records
NewRecords(season_records, team_records) ==
    { s \in season_records :
        \/ ~\E t \in team_records :
              t.event_code = s.event_code /\ t.age_group = s.age_group
        \/ \E t \in team_records :
              /\ t.event_code = s.event_code /\ t.age_group = s.age_group
              /\ ~TimeLess(t.time_seconds, s.time_seconds) }

\* -------------------------------------------------- the generate commands
\* longest table of loaded swims that is explored
MaxSwims == 3
\* largest n of a top-n list that is explored
MaxN == 2

E_100FreeSCY == << "1", "0", "0", " ", "F", "R", " ", "S", "C", "Y" >>
E_100FreeLCM == << "1", "0", "0", " ", "F", "R", " ", "L", "C", "M" >>
E_50FreeSCY == << " ", "5", "0", " ", " ", "f", "r", " ", "s", "c", "y" >>
E_NoStroke == << "1", "0", "0", " ", "X", "X", " ", "S", "C", "Y" >>
E_TwoParts == << "1", "0", "0", " ", "F", "R" >>
E_25FreeSCY == << "2", "5", " ", "F", "R", " ", "S", "C", "Y" >>

AggSwim(name, team, event, time, age, date) ==
    [Name |-> name, Team |-> team, Event |-> event, SwimTime |-> time,
     Age |-> age, SwimDate |-> date]

\* The swims the loaded tables are built from: three swimmers, one event of
\* the catalogue swum in 2022, 2023 and 2024 with two equal times, and swims
\* the aggregator cannot use or has to keep apart.
AggPool ==
    { AggSwim("A", T_Team, E_100FreeSCY, << "5", "7", ".", "9", "0" >>, GoodAge(12), GoodDate(100)),
      AggSwim("A", T_Team, E_100FreeSCY, << "5", "8", ".", "2", "0" >>, GoodAge(13), GoodDate(400)),
      AggSwim("B", T_Team, E_100FreeSCY, << "5", "8", ".", "2", "0" >>, GoodAge(12), GoodDate(-50)),
      AggSwim("C", T_Team, E_100FreeSCY, << "1", ":", "0", "2", ".", "3", "3" >>, GoodAge(13), GoodDate(40)),
      AggSwim("B", T_Team, E_100FreeSCY, << "N", "T" >>, GoodAge(12), GoodDate(100)),
      AggSwim("C", T_Team, E_100FreeSCY, NaN, BadAge, BadDate),
      AggSwim("A", T_Team, E_NoStroke, << "5", "5", ".", "0", "0" >>, GoodAge(12), GoodDate(100)),
      AggSwim("B", T_Team, E_TwoParts, << "5", "5", ".", "0", "0" >>, GoodAge(12), GoodDate(100)),
      AggSwim("C", T_Team, E_25FreeSCY, << "1", "5", ".", "1", "0" >>, GoodAge(10), GoodDate(100)),
      AggSwim("A", T_Team, E_100FreeLCM, << "5", "9", ".", "0", "0" >>, GoodAge(19), GoodDate(100)),
      AggSwim("B", T_Team, E_50FreeSCY, << "2", "6", ".", "0", "0" >>, GoodAge(12), GoodDate(400)),
      AggSwim("A", T_Other, E_100FreeSCY, << "5", "0", ".", "0", "0" >>, GoodAge(12), GoodDate(100)) }

AggTables == UNION { [1..n -> AggPool] : n \in 0..MaxSwims }

Courses == { << "s", "c", "y" >>, << "l", "c", "m" >> }
Seasons == {2022, 2023, 2024}

\* the three commands share their beginning (generate.py:51-75, 197-216,
\* 340-357): after load_all_swimmer_data and filter_team_swims the events
\* are parsed
GenNormalize ==
    /\ pc = "generated"
    /\ df_normalized' = ParseAndNormalizeEvents(df, df_team)
    /\ pc' = "normalized"
    /\ UNCHANGED << df, decisions, idx, first_team_idx, first_team_date,
                    seen_other_club, cls, stats, result, prev, calls,
                    cli_decisions, config_file, df_team, prompted,
                    gen_args, records, top_n, annual >>
    /\ UNCHANGED extVars

\* generate records (generate.py:77-92): with no team swim the table has no
\* event_course column and df["event_course"] raises KeyError
GenRecords ==
    /\ pc = "normalized"
    /\ \E course \in Courses, ties \in TieOrders :
          IF Len(df_team) = 0
          THEN /\ pc' = "raised"
               /\ UNCHANGED << gen_args, records >>
          ELSE /\ gen_args' = Some([course |-> course, n |-> 0, season |-> 0])
               /\ records' = Some(GetBestTimesByEvent(df, df_normalized,
                                                      course, ties))
               /\ pc' = "records"
    /\ UNCHANGED << df, decisions, idx, first_team_idx, first_team_date,
                    seen_other_club, cls, stats, result, prev, calls,
                    cli_decisions, config_file, df_team, prompted,
                    df_normalized, top_n, annual >>
    /\ UNCHANGED extVars

\* generate top10 --n N (generate.py:228-236)
GenTopN ==
    /\ pc = "normalized"
    /\ \E course \in Courses, n \in 1..MaxN, ties \in TieOrders :
          IF Len(df_team) = 0
          THEN /\ pc' = "raised"
               /\ UNCHANGED << gen_args, top_n >>
          ELSE /\ gen_args' = Some([course |-> course, n |-> n, season |-> 0])
               /\ top_n' = Some(GetTopNByEvent(df, df_normalized, course,
                                               n, ties))
               /\ pc' = "top_n"
    /\ UNCHANGED << df, decisions, idx, first_team_idx, first_team_date,
                    seen_other_club, cls, stats, result, prev, calls,
                    cli_decisions, config_file, df_team, prompted,
                    df_normalized, records, annual >>
    /\ UNCHANGED extVars

\* generate annual --season S (generate.py:359-411): the bests of the season
\* are compared with the bests of the whole team table; the command returns
\* without a summary when the season has no swim
GenAnnual ==
    /\ pc = "normalized"
    /\ \E course \in Courses, season \in Seasons, t1 \in TieOrders,
          t2 \in TieOrders :
          LET df_season == FilterBySeason(df, df_normalized, season)
              season_records == GetBestTimesByEvent(df, df_season, course, t1)
              team_records == GetBestTimesByEvent(df, df_normalized, course, t2)
          IN  /\ gen_args' = Some([course |-> course, n |-> 0,
                                   season |-> season])
              /\ annual' =
                   IF Len(df_season) = 0 THEN None
                   ELSE Some([season_records |-> season_records,
                              team_records |-> team_records,
                              new_records |-> NewRecords(season_records,
                                                         team_records)])
              /\ pc' = "annual"
    /\ UNCHANGED << df, decisions, idx, first_team_idx, first_team_date,
                    seen_other_club, cls, stats, result, prev, calls,
                    cli_decisions, config_file, df_team, prompted,
                    df_normalized, records, top_n >>
    /\ UNCHANGED extVars

InitAggregate ==
    /\ df \in AggTables
    /\ decisions = NoConfig
    /\ cli_decisions = NoFlags
    /\ config_file = NoConfig
    /\ pc = "raw"
    /\ FreshCall

NextAggregate ==
    GenerateLoad \/ GenNormalize \/ GenRecords \/ GenTopN \/ GenAnnual

\* one generate command over every table of loaded swims
SpecAggregate == InitAggregate /\ [][NextAggregate]_vars

\* Careers with swims whose date text cannot be parsed.  With the team's
\* first swim on day 40 the 60-day window is [-20, 40).
BadDatePool ==
    { Swim(T_Other, GoodDate(-50), GoodAge(19)),
      Swim(T_Team, GoodDate(40), GoodAge(17)),
      Swim(T_Unattached, BadDate, GoodAge(19)),
      Swim(T_Unattached, BadDate, GoodAge(17)),
      Swim(T_UnattachedHS, BadDate, GoodAge(19)),
      Swim(T_Unattached, GoodDate(39), GoodAge(19)) }

BadDateCareers == UNION { [1..n -> BadDatePool] : n \in 0..MaxLen }

InitBadDate ==
    /\ df \in BadDateCareers
    /\ decisions \in ValidDecisionSets
    /\ cli_decisions = NoFlags
    /\ config_file = NoConfig
    /\ pc = "begin"
    /\ FreshCall

\* one call of _classify_swimmer on careers with unparsable dates
SpecBadDate == InitBadDate /\ [][Next]_vars

\* Careers without affiliation data: the Team cell of every swim is empty
\* (read as NaN), or blank, or the file has no Team column at all.
T_Blank == << " " >>
NoTeamPool ==
    { Swim(NaN, GoodDate(40), GoodAge(19)),
      Swim(NaN, BadDate, GoodAge(17)),
      Swim(T_Blank, GoodDate(-50), BadAge),
      Swim(T_Team, GoodDate(100), GoodAge(17)) }
NoColumnPool ==
    { Swim(NoColumn, GoodDate(40), GoodAge(19)),
      Swim(NoColumn, GoodDate(-50), GoodAge(17)) }

NoTeamCareers ==
    UNION { [1..n -> NoTeamPool] \cup [1..n -> NoColumnPool] : n \in 0..MaxLen }

InitNoTeam ==
    /\ df \in NoTeamCareers
    /\ decisions \in ValidDecisionSets
    /\ cli_decisions = NoFlags
    /\ config_file = NoConfig
    /\ pc = "begin"
    /\ FreshCall

\* one call of _classify_swimmer on careers without affiliation data
SpecNoTeam == InitNoTeam /\ [][Next]_vars

\* the classify command is run again over the same file: the flags are
\* given anew and the configuration file is what the previous run saved
\* (classify.py:76-81, 558-579)
RunAgain ==
    /\ pc = "finished"
    /\ calls < MaxCalls
    /\ prev' = Some(result)
    /\ pc' = "start"
    /\ UNCHANGED << df, decisions, idx, first_team_idx, first_team_date,
                    seen_other_club, cls, stats, result, calls,
                    cli_decisions, config_file, df_team, prompted >>
    /\ UNCHANGED aggVars
    /\ UNCHANGED extVars

\* the careers and configuration files repeated runs are explored on
RerunCareers ==
    { << Swim(T_Other, GoodDate(-50), GoodAge(19)),
         Swim(T_Unattached, GoodDate(40), GoodAge(19)),
         Swim(T_Team, GoodDate(100), GoodAge(17)) >>,
      << Swim(T_UnattachedHS, GoodDate(40), GoodAge(19)),
         Swim(T_Unattached, GoodDate(40), GoodAge(19)),
         Swim(T_Unattached, GoodDate(-20), GoodAge(17)) >> }

RerunConfigs ==
    { NoConfig,
      [c \in Categories |-> IF c = "college" THEN "include" ELSE ""],
      [c \in Categories |-> IF c = "misc_unattached" THEN "yes" ELSE "exclude"] }

InitReruns ==
    /\ df \in RerunCareers
    /\ config_file \in RerunConfigs
    /\ cli_decisions = NoFlags
    /\ decisions = NoConfig
    /\ pc = "start"
    /\ FreshCall

NextReruns ==
    \/ RunStart \/ ClassifyBegin \/ ClassifyStep \/ ClassifySplit
    \/ RunSummary \/ RunAgain

\* MaxCalls runs of the classify command over one swimmer file
SpecReruns == InitReruns /\ [][NextReruns]_vars

\* ------------------------------------------------------- import swimmers
\* most rows of a roster that are explored
MaxRoster == 2
\* most runs of the import command over one swimmers directory
MaxRuns == 2

\* _sanitize_filename (import_swimmers.py:323-327)
SanitizeFilename(name) ==
    LET low == Lower(name)
        dashed == [i \in 1..Len(low) |-> IF low[i] = " " THEN "-" ELSE low[i]]
        alnum == DOMAIN UpperToLower
                     \cup { UpperToLower[c] : c \in DOMAIN UpperToLower }
                     \cup DOMAIN DigitVal
        Safe(c) == c \in alnum \/ c = "-"
    IN  SelectSeq(dashed, Safe)

\* the stem of the file a fetched swimmer is saved to
\* (import_swimmers.py:244-245)
SwimmerFile(name, swimmer_id) ==
    SanitizeFilename(name) \o << "-" >> \o swimmer_id

\* mutant: the ID is taken from the first part of the file name
ExistingSwimmerFiles_FirstPart(dir) ==
    { SplitAt(f, "-")[1] : f \in dir }

\* _get_existing_swimmer_files (import_swimmers.py:299-321): the last part
\* of every file name
ExistingSwimmerFiles(dir) ==
    { SplitAt(f, "-")[Len(SplitAt(f, "-"))] : f \in dir }

\* to_download (import_swimmers.py:147-158)
ToDownload(roster, existing) ==
    LET NotCached(row) == row.id \notin existing
    IN  SelectSeq(roster, NotCached)

RosterRows ==
    { [id |-> << "1", "2" >>, name |-> << "A", "l", " ", "B", "o" >>],
      [id |-> << "2" >>, name |-> << "C", "y", "-", "D", "e", "e" >>],
      [id |-> << "a", "1", "b" >>, name |-> << "O", "'", "H", "a", "r", "a", " ", "1", "2" >>],
      [id |-> << "0" >>, name |-> << "R", "e", "l", "a", "y" >>] }

\* run up to the download loop (import_swimmers.py:36-183)
ImportStart ==
    /\ pc = "import"
    /\ LET \* the relay entries (PersonKey 0) are dropped
           \* (import_swimmers.py:110-114)
           NotRelay(row) == row.id # << "0" >>
           roster == SelectSeq(swimmers_df, NotRelay)
           existing == IF force THEN { } ELSE ExistingSwimmerFiles(swimmers_dir)
       IN  /\ to_download' = ToDownload(roster, existing)
           /\ pc' = IF ToDownload(roster, existing) = << >> \/ dry_run
                    THEN "imported" ELSE "download"
    /\ dl_idx' = 1
    /\ fetched' = << >>
    /\ UNCHANGED << swimmers_df, swimmers_dir, force, dry_run, earlier >>
    /\ UNCHANGED << df, decisions, idx, first_team_idx, first_team_date,
                    seen_other_club, cls, stats, result, prev, calls,
                    cli_decisions, config_file, df_team, prompted >>
    /\ UNCHANGED << aggVars, fn_in, fn_out, runVars >>

\* one iteration of the download loop (import_swimmers.py:210-261): the
\* source returns data, returns no data, raises, or the user interrupts
ImportFetch ==
    /\ pc = "download"
    /\ dl_idx <= Len(to_download)
    /\ \E outcome \in {"data", "empty", "error", "interrupt"} :
          LET row == to_download[dl_idx]
          IN  /\ fetched' = Append(fetched, [id |-> row.id, outcome |-> outcome])
              /\ swimmers_dir' =
                    IF outcome = "data"
                    THEN swimmers_dir \cup {SwimmerFile(row.name, row.id)}
                    ELSE swimmers_dir
              /\ pc' = IF outcome = "interrupt" THEN "interrupted" ELSE pc
              /\ dl_idx' = IF outcome = "interrupt" THEN dl_idx ELSE dl_idx + 1
    /\ UNCHANGED << swimmers_df, force, dry_run, to_download, earlier >>
    /\ UNCHANGED << df, decisions, idx, first_team_idx, first_team_date,
                    seen_other_club, cls, stats, result, prev, calls,
                    cli_decisions, config_file, df_team, prompted >>
    /\ UNCHANGED << aggVars, fn_in, fn_out, runVars >>

\* the summary after the loop (import_swimmers.py:263-297)
ImportSummary ==
    /\ pc = "download"
    /\ dl_idx > Len(to_download)
    /\ pc' = "imported"
    /\ UNCHANGED importVars
    /\ UNCHANGED << df, decisions, idx, first_team_idx, first_team_date,
                    seen_other_club, cls, stats, result, prev, calls,
                    cli_decisions, config_file, df_team, prompted >>
    /\ UNCHANGED << aggVars, fn_in, fn_out, runVars >>

\* the command is run again over the same roster and directory, with
\* flags given anew (import_swimmers.py:29-34)
ImportAgain ==
    /\ pc \in {"imported", "interrupted"}
    /\ calls + 1 < MaxRuns
    /\ calls' = calls + 1
    /\ force' \in BOOLEAN
    /\ dry_run' \in BOOLEAN
    /\ earlier' = earlier \o fetched
    /\ pc' = "import"
    /\ UNCHANGED << swimmers_df, swimmers_dir, to_download, dl_idx, fetched >>
    /\ UNCHANGED << df, decisions, idx, first_team_idx, first_team_date,
                    seen_other_club, cls, stats, result, prev,
                    cli_decisions, config_file, df_team, prompted >>
    /\ UNCHANGED << aggVars, fn_in, fn_out, runVars >>

InitImport ==
    /\ swimmers_df \in UNION { [1..n -> RosterRows] : n \in 0..MaxRoster }
    \* the swimmers directory before the first run: empty, or files of
    \* earlier imports
    /\ swimmers_dir \in SUBSET { << "a", "l", "-", "b", "o", "-", "1", "2" >>, << "a", "n", "n", "-", "2" >>, << "1", "2", "-", "x", "9" >> }
    /\ force \in BOOLEAN
    /\ dry_run \in BOOLEAN
    /\ df = << >>
    /\ decisions = NoConfig
    /\ cli_decisions = NoFlags
    /\ config_file = NoConfig
    /\ swimmer_files = 1
    /\ fn_in = None
    /\ fn_out = None
    /\ pc = "import"
    /\ FreshLocals

NextImport == ImportStart \/ ImportFetch \/ ImportSummary \/ ImportAgain

\* MaxRuns runs of import swimmers over one roster and swimmers directory
SpecImport == InitImport /\ [][NextImport]_vars

\* ------------------------------------ the normalizer functions on their own
\* most blank-separated tokens of an event string that are explored
MaxTokens == 3
\* most colon-separated fields of a time string that are explored
MaxFields == 3

RECURSIVE Join(_, _)
\* sep.join(parts)
Join(parts, sep) ==
    IF Len(parts) = 0 THEN << >>
    ELSE IF Len(parts) = 1 THEN parts[1]
    ELSE parts[1] \o sep \o Join(Tail(parts), sep)

\* event strings: up to MaxTokens tokens joined by blanks (an empty token
\* gives leading, trailing or doubled blanks), and the empty cell
EventInputs ==
    LET tokens ==
          { << >>, << "5", "0" >>, << "1", "0", "0" >>, << "5", "x" >>,
            << "F", "R" >>, << "B", "a", "c", "k" >>, << "X", "X" >>,
            << "S", "C", "Y" >>, << "l", "c", "m" >>,
            << "Y", "a", "r", "d", "s" >> }
    IN  {NaN} \cup
        { Join(toks, << " " >>) :
            toks \in UNION { [1..n -> tokens] : n \in 0..MaxTokens } }

\* time strings: up to MaxFields fields joined by colons, and the empty cell
TimeInputs ==
    LET parts ==
          { << >>, << "0" >>, << "1" >>, << "0", "2", ".", "3", "3" >>,
            << "5", "7", ".", "9", "0" >>, << "-", "5", ".", "0", "0" >>,
            << "N", "T" >>, << "n", "a", "n" >>, << " ", "3", "0" >> }
    IN  {NaN} \cup
        { Join(fields, << ":" >>) :
            fields \in UNION { [1..n -> parts] : n \in 0..MaxFields } }

\* oldest whole age that is explored
MaxAge == 20

RECURSIVE IntText(_)
\* str(n) of a natural number
IntText(n) ==
    LET d == CHOOSE c \in DOMAIN DigitVal : DigitVal[c] = n % 10
    IN  IF n < 10 THEN << d >> ELSE Append(IntText(n \div 10), d)

\* ages: whole and fractional numbers, as pandas reads them from the Age
\* column, texts that are not numbers, and the empty cell
AgeInputs ==
    {NaN} \cup
    { IntText(n) \o f : n \in 0..MaxAge,
                        f \in { << >>, << ".", "0" >>, << ".", "5" >> } } \cup
    { << "-", "3" >>, << "a", "b", "c" >>, << >>, << "n", "a", "n" >>, << "i", "n", "f" >>, << " ", "1", "2", " " >> }

NormalizerCalls ==
    { [fn |-> "parse_api_event", arg |-> x] : x \in EventInputs } \cup
    { [fn |-> "convert_time_to_seconds", arg |-> x] : x \in TimeInputs } \cup
    { [fn |-> "determine_age_group", arg |-> x] : x \in AgeInputs }

\* parse_api_event(event_str) returns (events.py:81-117)
CallParseApiEvent ==
    /\ pc = "call"
    /\ fn_in[1].fn = "parse_api_event"
    /\ fn_out' = Some(ParseApiEvent(fn_in[1].arg))
    /\ pc' = "returned"
    /\ UNCHANGED << df, decisions, idx, first_team_idx, first_team_date,
                    seen_other_club, cls, stats, result, prev, calls,
                    cli_decisions, config_file, df_team, prompted, fn_in >>
    /\ UNCHANGED aggVars
    /\ UNCHANGED << runVars, importVars >>

\* convert_time_to_seconds(time_str) returns (events.py:133-159)
CallConvertTimeToSeconds ==
    /\ pc = "call"
    /\ fn_in[1].fn = "convert_time_to_seconds"
    /\ fn_out' = Some(ConvertTimeToSeconds(fn_in[1].arg))
    /\ pc' = "returned"
    /\ UNCHANGED << df, decisions, idx, first_team_idx, first_team_date,
                    seen_other_club, cls, stats, result, prev, calls,
                    cli_decisions, config_file, df_team, prompted, fn_in >>
    /\ UNCHANGED aggVars
    /\ UNCHANGED << runVars, importVars >>

\* determine_age_group(age) returns or raises (events.py:162-187)
CallDetermineAgeGroup ==
    /\ pc = "call"
    /\ fn_in[1].fn = "determine_age_group"
    /\ LET f == IF fn_in[1].arg = NaN THEN NanTime ELSE Float(fn_in[1].arg)
       IN  IF DetermineAgeGroup(f) = "OverflowError"
           THEN fn_out' = None /\ pc' = "raised"
           ELSE fn_out' = Some(DetermineAgeGroup(f)) /\ pc' = "returned"
    /\ UNCHANGED << df, decisions, idx, first_team_idx, first_team_date,
                    seen_other_club, cls, stats, result, prev, calls,
                    cli_decisions, config_file, df_team, prompted, fn_in >>
    /\ UNCHANGED aggVars
    /\ UNCHANGED << runVars, importVars >>

InitNormalizer ==
    /\ fn_in \in { Some(c) : c \in NormalizerCalls }
    /\ fn_out = None
    /\ df = << >>
    /\ decisions = NoConfig
    /\ cli_decisions = NoFlags
    /\ config_file = NoConfig
    /\ pc = "call"
    /\ swimmer_files = 1
    /\ NoImport
    /\ FreshLocals

NextNormalizer ==
    CallParseApiEvent \/ CallConvertTimeToSeconds \/ CallDetermineAgeGroup

\* one call of a normalizer function on every input
SpecNormalizer == InitNormalizer /\ [][NextNormalizer]_vars

TypeOK ==
    /\ pc \in {"start", "begin", "loop", "done", "finished", "raised",
               "raw", "generated", "normalized", "records", "top_n",
               "annual", "call", "returned",
               "import", "download", "imported", "interrupted"}
    /\ idx \in 1..(Len(df) + 1)
    /\ Len(cls) <= Len(df)

\* ------------------------------------------------- vocabulary of the claims
Walked == 1..Len(cls)
TeamText(i) == TeamOf(df[i].Team)
\* an unattached swim in the sense of the classifier's second case: the text
\* contains "unattached" and no configured team name
UnattachedSwim(i) == IsUnattached(TeamText(i)) /\ ~IsTeamSwim(TeamText(i))
OtherClubSwim(i) ==
    /\ ~IsTeamSwim(TeamText(i)) /\ ~IsUnattached(TeamText(i))
    /\ StripNonEmpty(TeamText(i))
BeforeFirstTeam(i) == first_team_idx # None /\ i < first_team_idx[1]
DateKnown(i) == df[i].SwimDate.ok
DayOf(i) == df[i].SwimDate.day
\* 60 days for a swim on or after 2023-01-01 (day 0), 120 days before it
WindowDays(i) == IF DayOf(i) >= 0 THEN 60 ELSE 120
InWindow(i) ==
    /\ DateKnown(i) /\ first_team_date # None
    /\ first_team_date[1] - WindowDays(i) <= DayOf(i)
    /\ DayOf(i) < first_team_date[1]
\* an other-club swim was walked before row i, ahead of the first team swim
OtherClubBefore(i) ==
    \E j \in 1..(i - 1) :
        OtherClubSwim(j) /\ (first_team_idx = None \/ j < first_team_idx[1])
AgeIn18To22(i) == df[i].Age.ok /\ df[i].Age.val \in 18..22
InSeq(x, q) == \E k \in 1..Len(q) : q[k] = x

\* C2: classifying the same career again with the same team names and the
\* same Decision Set returns the same labels, decisions, statistics and
\* official / excluded partitions as the call before.
C2_Idempotent ==
    (pc = "done" /\ prev # None) => result = prev[1]

C2_Witness ==
    /\ pc = "done" /\ prev # None /\ calls = 2
    /\ \E i \in 1..Len(result.labels) : result.labels[i].category = "Probationary"
    /\ result.official # << >> /\ result.excluded # << >>

\* C3: a swim dated before first_team_date - window_days (60 days for a swim
\* on or after 2023-01-01, else 120) is never labeled Probationary.
C3_MonotonicWindow ==
    \A i \in Walked :
        ( /\ DateKnown(i) /\ first_team_date # None
          /\ DayOf(i) < first_team_date[1] - WindowDays(i) )
        => cls[i].category # "Probationary"

C3_Witness ==
    \E i \in Walked :
        /\ UnattachedSwim(i) /\ BeforeFirstTeam(i) /\ OtherClubBefore(i)
        /\ DateKnown(i) /\ first_team_date # None
        /\ DayOf(i) >= 0
        /\ DayOf(i) < first_team_date[1] - 60
        /\ DayOf(i) >= first_team_date[1] - 120
        /\ cls[i].category = "MiscUnattached"

\* C4: when the walk reaches an unattached swim that does not match the
\* high-school heuristic and lies before the first team swim, the swim is
\* labeled Probationary if and only if seen_other_club is true at that moment
\* and first_team_date - W <= swim_date < first_team_date, W being 60 for a
\* swim dated on or after 2023-01-01 and 120 otherwise.
C4_ProbationaryIff ==
    [][ ( /\ pc = "loop" /\ idx <= Len(df)
          /\ UnattachedSwim(idx) /\ ~IsHighSchool(TeamText(idx))
          /\ BeforeFirstTeam(idx) )
        => ( /\ Len(cls') = idx
             /\ (cls'[idx].category = "Probationary")
                   <=> (seen_other_club /\ InWindow(idx)) ) ]_vars

\* a pre-2023 swim made Probationary by the 120-day window although the
\* transfer itself is after 2023-01-01 and more than 60 days later
C4_Witness ==
    \E i \in Walked :
        /\ UnattachedSwim(i) /\ BeforeFirstTeam(i)
        /\ cls[i].category = "Probationary"
        /\ cls[i].transfer_rule_days = Some(120)
        /\ first_team_date[1] >= 0
        /\ DayOf(i) < first_team_date[1] - 60

C6_CollegeFallThrough ==
    \A i \in Walked :
        ( /\ UnattachedSwim(i) /\ AgeIn18To22(i)
          /\ ~IsHighSchool(TeamText(i))
          /\ ~(BeforeFirstTeam(i) /\ OtherClubBefore(i) /\ InWindow(i)) )
        => cls[i].category = "College"

\* C7: every team swim is labeled Official with decision include, and every
\* OtherClub or Unknown swim has decision exclude, whatever the Decision Set;
\* a non-team, non-unattached swim is OtherClub when its text is non-empty
\* and Unknown otherwise.
C7_FixedDecisions ==
    \A i \in Walked :
        /\ IsTeamSwim(TeamText(i))
              => (cls[i].category = "Official" /\ cls[i].decision = "include")
        /\ cls[i].category \in {"OtherClub", "Unknown"}
              => cls[i].decision = "exclude"
        /\ OtherClubSwim(i) => cls[i].category = "OtherClub"
        /\ (~IsTeamSwim(TeamText(i)) /\ ~IsUnattached(TeamText(i))
              /\ ~StripNonEmpty(TeamText(i))) => cls[i].category = "Unknown"

C7_Witness ==
    /\ pc = "done"
    /\ \A c \in Categories : decisions[c] = "exclude"
    /\ \E i \in 1..Len(df) :
          IsTeamSwim(TeamText(i)) /\ InSeq(i, result.official)
    /\ \E i \in 1..Len(df) :
          result.labels[i].category = "OtherClub" /\ InSeq(i, result.excluded)
    /\ \E i \in 1..Len(df) :
          result.labels[i].category = "Unknown" /\ InSeq(i, result.excluded)

CategoryKey(cat) ==
    CASE cat = "HighSchool" -> "high_school"
      [] cat = "Probationary" -> "probationary"
      [] cat = "College" -> "college"
      [] cat = "MiscUnattached" -> "misc_unattached"

\* C8: a swim labeled HighSchool, Probationary, College or MiscUnattached has
\* the decision the Decision Set holds for that category, and is in the
\* official partition exactly when that decision is include.
C8_DecisionApplied ==
    /\ \A i \in Walked :
          cls[i].category \in {"HighSchool", "Probationary", "College",
                               "MiscUnattached"}
          => cls[i].decision = decisions[CategoryKey(cls[i].category)]
    /\ (pc = "done" /\ Len(df) > 0) =>
          \A i \in 1..Len(df) :
              result.labels[i].category \in {"HighSchool", "Probationary",
                                             "College", "MiscUnattached"}
              => ( InSeq(i, result.official)
                     <=> decisions[CategoryKey(result.labels[i].category)]
                            = "include" )

C8_Witness ==
    /\ pc = "done"
    /\ decisions["probationary"] = "include"
    /\ decisions["misc_unattached"] = "exclude"
    /\ decisions["college"] = "exclude"
    /\ decisions["high_school"] = "exclude"
    /\ \E i \in 1..Len(df) :
          result.labels[i].category = "Probationary" /\ InSeq(i, result.official)

\* the categories _classify_swimmer assigns to the rows of a career, walked
\* in the order given (classify.py:397-493)
RECURSIVE WalkFrom(_, _, _, _, _, _)
WalkFrom(rows, i, fti, ftd, seen, d) ==
    IF i > Len(rows) THEN << >>
    ELSE << ClassifyRow(rows[i], i, fti, ftd, seen, d).category >>
         \o WalkFrom(rows, i + 1, fti, ftd, SeenAfter(rows[i], i, fti, seen), d)

WalkLabels(rows, d) ==
    WalkFrom(rows, 1, FirstTeamIdx(rows),
             FirstTeamDate(rows, FirstTeamIdx(rows)), FALSE, d)

\* the arrangement of the rows in ascending date order (equal dates keep
\* their input order): position a of the chronological career is input row p[a]
ChronologicalOrder(rows) ==
    CHOOSE p \in [1..Len(rows) -> 1..Len(rows)] :
        /\ \A a, b \in 1..Len(rows) : a # b => p[a] # p[b]
        /\ \A a, b \in 1..Len(rows) :
              a < b => \/ rows[p[a]].SwimDate.day < rows[p[b]].SwimDate.day
                       \/ /\ rows[p[a]].SwimDate.day = rows[p[b]].SwimDate.day
                          /\ p[a] < p[b]

\* C9 (as claimed): the career is walked in ascending swim-date order with
\* the earliest team swim as the first team swim, so the label of every swim
\* is the one the chronological walk gives it, whatever order the rows
\* arrive in.
C9_ChronologicalWalk ==
    (pc = "done" /\ Len(df) > 0 /\ \A i \in 1..Len(df) : DateKnown(i)) =>
        LET p == ChronologicalOrder(df)
            sorted == [a \in 1..Len(df) |-> df[p[a]]]
            chrono == WalkLabels(sorted, decisions)
        IN  \A a \in 1..Len(df) : result.labels[p[a]].category = chrono[a]

\* C1 (as claimed): whatever Decision Set the run ends up using, every swim
\* of the career has exactly one of the decisions include / exclude, so each
\* row is in exactly one of the official and excluded partitions returned.
C1_PartitionComplete ==
    /\ \A i \in Walked : cls[i].decision \in {"include", "exclude"}
    /\ pc \in {"done", "finished", "raised"} /\ calls > 0 =>
          \A i \in 1..Len(df) :
              InSeq(i, result.official) <=> ~InSeq(i, result.excluded)

\* C10 (as claimed): the swims a generate command aggregates over are the
\* official partition of the classifier: a swim is among them only if its
\* decision is include, and every swim with decision include, also one of an
\* ambiguous category the Decision Set includes, is among them.
C10_AggregatesOfficial ==
    pc = "generated" =>
        \A i \in 1..Len(df) :
            InSeq(i, df_team) <=> result.labels[i].decision = "include"

\* C19 (as claimed): an unattached swim whose date cannot be parsed is never
\* labeled Probationary and, when it does not match the high-school
\* heuristic, is labeled MiscUnattached.
C19_UnparsableDateMisc ==
    \A i \in Walked :
        (UnattachedSwim(i) /\ ~DateKnown(i)) =>
            /\ cls[i].category # "Probationary"
            /\ ~IsHighSchool(TeamText(i)) => cls[i].category = "MiscUnattached"

\* C19 (amended): an unattached swim whose date cannot be parsed is never
\* labeled Probationary; when it does not match the high-school heuristic it
\* is labeled College or MiscUnattached, College only with an age in
\* [18, 22] and MiscUnattached whenever the age is outside [18, 22]; the
\* classification returns a label for every swim of the career.
C19_UnparsableDate ==
    /\ \A i \in Walked :
         (UnattachedSwim(i) /\ ~DateKnown(i)) =>
            /\ cls[i].category # "Probationary"
            /\ ~IsHighSchool(TeamText(i)) =>
                  /\ cls[i].category \in {"College", "MiscUnattached"}
                  /\ cls[i].category = "College" => AgeIn18To22(i)
                  /\ ~AgeIn18To22(i) => cls[i].category = "MiscUnattached"
    /\ pc = "done" => Len(result.labels) = Len(df)

\* an unparsable-date swim inside the probation branch (before the first
\* team swim, after another club) has been labeled MiscUnattached
C19_Witness ==
    /\ pc = "done"
    /\ \E i \in Walked :
          /\ UnattachedSwim(i) /\ ~DateKnown(i) /\ ~IsHighSchool(TeamText(i))
          /\ BeforeFirstTeam(i) /\ OtherClubBefore(i) /\ first_team_date # None
          /\ cls[i].category = "MiscUnattached"

\* no swim of the career carries affiliation data
NoAffiliation ==
    /\ Len(df) > 0
    /\ \A i \in 1..Len(df) :
          df[i].Team = NoColumn \/ ~StripNonEmpty(TeamOf(df[i].Team))

\* C20: a career in which no swim has affiliation data (the field empty or
\* absent for all swims) is returned with every swim labeled Unknown with
\* decision exclude, all of them in the excluded partition and none in the
\* official one.
C20_MissingAffiliation ==
    (pc = "done" /\ NoAffiliation) =>
        /\ Len(result.labels) = Len(df)
        /\ \A i \in 1..Len(result.labels) :
              /\ result.labels[i].category = "Unknown"
              /\ result.labels[i].decision = "exclude"
        /\ result.official = << >>
        /\ Len(result.excluded) = Len(df)

\* C16: for each ambiguous category the Decision Set value is the run-time
\* flag if one is given, else the persisted value if one exists, else the
\* answer to an interactive prompt; a prompt is issued only when neither a
\* flag nor a persisted value exists for the category.
C16_DecisionPrecedence ==
    [][ (pc = "start" /\ pc' = "begin") =>
          \A c \in Categories :
             /\ cli_decisions'[c] # "" =>
                   (decisions'[c] = cli_decisions'[c] /\ prompted'[c] = "")
             /\ (cli_decisions'[c] = "" /\ config_file[c] # "") =>
                   (decisions'[c] = config_file[c] /\ prompted'[c] = "")
             /\ (cli_decisions'[c] = "" /\ config_file[c] = "") =>
                   (prompted'[c] # "" /\ decisions'[c] = prompted'[c]) ]_vars

\* the decisions of one run came from all three sources: a flag for one
\* category, the saved configuration for another, a prompt for a third
C16_Witness ==
    /\ pc = "begin"
    /\ \E c1, c2, c3 \in Categories :
          /\ cli_decisions[c1] # "" /\ decisions[c1] = cli_decisions[c1]
          /\ prompted[c2] # "" /\ decisions[c2] = prompted[c2]
          /\ cli_decisions[c3] = "" /\ prompted[c3] = ""

\* C17 (as claimed): from the moment the first swimmer is classified the
\* Decision Set holds a value in {include, exclude} for each of the four
\* ambiguous categories, and it does not change during classification.
C17_DecisionsPrecondition ==
    /\ [](pc \in {"begin", "loop", "done"} =>
             \A c \in Categories : decisions[c] \in DecisionValues)
    /\ [][ (pc \in {"begin", "loop"}) => (decisions' = decisions) ]_vars

\* C18: once a run has used a Decision Set D the persisted configuration
\* holds exactly D; a later run without flags uses exactly D and issues no
\* prompt; and a run without flags returns the partitions of the run before.
C18_DecisionsPersist ==
    /\ [](pc \in {"begin", "loop", "done", "finished"} =>
             \A c \in Categories : config_file[c] = decisions[c])
    /\ [][ (pc = "start" /\ pc' = "begin" /\ calls > 0
                /\ cli_decisions' = [c \in Categories |-> ""]) =>
             /\ decisions' = decisions
             /\ decisions' = config_file
             /\ \A c \in Categories : prompted'[c] = "" ]_vars
    /\ [](( /\ pc \in {"done", "finished"} /\ prev # None /\ calls > 1
            /\ cli_decisions = [c \in Categories |-> ""] ) =>
             /\ result.official = prev[1].official
             /\ result.excluded = prev[1].excluded)

\* a second run without flags has finished after a first run that asked the
\* user, with swims in both partitions
C18_Witness ==
    /\ pc = "finished" /\ prev # None /\ calls > 1
    /\ cli_decisions = [c \in Categories |-> ""]
    /\ \A c \in Categories : prompted[c] = ""
    /\ \E c \in Categories : decisions[c] = "include"
    /\ Len(result.official) > 0 /\ Len(result.excluded) > 0

\* ------------------------------------- vocabulary of the aggregator claims
\* the course the command was run for
Course == gen_args[1].course
Swims == 1..Len(df_normalized)
Norm(p) == df_normalized[p]
CatalogueEvents == { EventList(Course)[k] : k \in 1..Len(EventList(Course)) }
AgeGroupSet == { AGE_GROUPS[k] : k \in 1..Len(AGE_GROUPS) }
\* swim p is a swim of event e in the course of the command
InEvent(p, e) ==
    Norm(p).event_course = Some(Course) /\ Norm(p).event_code = Some(e)
\* the bucket (e, g): the Open bucket takes the swims of all ages
InBucket(p, e, g) == InEvent(p, e) /\ (g = "Open" \/ Norm(p).age_group = g)
Finite(p) == Norm(p).time_seconds.kind = "num"
\* the event string has a null parse or the time parses to +infinity
Unusable(p) ==
    Norm(p).event_code = None \/ Norm(p).time_seconds.kind = "inf"
\* time t is not slower than the time of swim p (any time is not slower
\* than +infinity; a NaN time is not compared)
NotSlowerThan(t, p) ==
    \/ Norm(p).time_seconds.kind \in {"inf", "nan"}
    \/ t.kind = "num" /\ Finite(p) /\ t.val <= Norm(p).time_seconds.val
\* entry r was built from swim p
SourceOf(r, p) ==
    /\ Norm(p).row = r.row
    /\ Norm(p).time_seconds = r.time_seconds
    /\ Norm(p).Name = r.swimmer_name

\* C11: for every (event, age-group) bucket of the catalogue of the requested
\* course that holds a swim with a finite time, get_best_times_by_event
\* returns one Record Entry; the entry is built from a swim of the bucket and
\* its time is not slower than any swim of the bucket.  The Open bucket holds
\* the swims of all ages.
C11_BestTimes ==
    pc = "records" =>
        \A e \in CatalogueEvents, g \in AgeGroupSet :
            (\E p \in Swims : InBucket(p, e, g) /\ Finite(p)) =>
                /\ Cardinality({ r \in records[1] :
                      r.event_code = e /\ r.age_group = g }) = 1
                /\ \A r \in records[1] :
                      (r.event_code = e /\ r.age_group = g) =>
                         /\ \E p \in Swims : InBucket(p, e, g) /\ SourceOf(r, p)
                         /\ \A p \in Swims :
                               InBucket(p, e, g) => NotSlowerThan(r.time_seconds, p)

\* the Open record of an event is a swim that comes after a slower swim of
\* another age group in the loaded table
C11_Witness ==
    /\ pc = "records"
    /\ \E r \in records[1], p, q \in Swims :
          /\ r.age_group = "Open" /\ p < q
          /\ InEvent(p, r.event_code) /\ InEvent(q, r.event_code)
          /\ Finite(p) /\ SourceOf(r, q)
          /\ Norm(p).age_group # Norm(q).age_group
          /\ r.time_seconds.val < Norm(p).time_seconds.val

\* C12: no list returned by get_top_n_by_event names a swimmer twice, and
\* the entry kept for a swimmer is built from that swimmer's fastest swim in
\* the event.
C12_OneEntryPerSwimmer ==
    pc = "top_n" =>
        \A l \in top_n[1] :
            /\ \A j, k \in 1..Len(l.entries) :
                  j # k => l.entries[j].swimmer_name # l.entries[k].swimmer_name
            /\ \A k \in 1..Len(l.entries) :
                  /\ \E p \in Swims :
                        InEvent(p, l.event_code) /\ SourceOf(l.entries[k], p)
                  /\ \A p \in Swims :
                        ( /\ InEvent(p, l.event_code)
                          /\ Norm(p).Name = l.entries[k].swimmer_name ) =>
                            NotSlowerThan(l.entries[k].time_seconds, p)

\* a list of two swimmers, one of whom has a slower swim in the event ahead
\* of the listed one in the loaded table
C12_Witness ==
    /\ pc = "top_n"
    /\ \E l \in top_n[1] :
          /\ Len(l.entries) = 2
          /\ \E k \in 1..2, p, q \in Swims :
                /\ p < q /\ InEvent(p, l.event_code) /\ Finite(p)
                /\ SourceOf(l.entries[k], q)
                /\ Norm(p).Name = Norm(q).Name
                /\ l.entries[k].time_seconds.val < Norm(p).time_seconds.val

\* the best finite time of a swimmer in an event is not slower than time t
SwimmerAtLeastAsFast(name, e, t) ==
    \E p \in Swims :
        /\ InEvent(p, e) /\ Norm(p).Name = name /\ Finite(p)
        /\ Norm(p).time_seconds.val <= t.val

\* C13 (as claimed): a list returned by get_top_n_by_event for N has at most
\* N entries, they are the N fastest distinct swimmers of the event in
\* ascending order of time, and entries with equal times are ranked in the
\* order of their swims in the input.
C13_TopNRanking ==
    pc = "top_n" =>
        \A l \in top_n[1] :
            /\ Len(l.entries) <= gen_args[1].n
            /\ \A j, k \in 1..Len(l.entries) :
                  j < k =>
                     /\ l.entries[j].time_seconds.val <= l.entries[k].time_seconds.val
                     /\ l.entries[j].time_seconds = l.entries[k].time_seconds
                           => l.entries[j].row < l.entries[k].row
            /\ \A p \in Swims :
                  (InEvent(p, l.event_code) /\ Finite(p)) =>
                     \/ \E k \in 1..Len(l.entries) :
                           l.entries[k].swimmer_name = Norm(p).Name
                     \/ /\ Len(l.entries) = gen_args[1].n
                        /\ l.entries[Len(l.entries)].time_seconds.val
                              <= Norm(p).time_seconds.val

\* C14: a swim whose event string has a null parse or whose time parses to
\* +infinity is never the swim a Record Entry is built from, in the records,
\* in a top-N list or in an annual summary; an entry is as fast as the
\* usable swims of its bucket allow whatever unusable swims the table holds;
\* and a command raises an error only when no team swim was loaded.
C14_UnusableNeverRank ==
    /\ pc = "raised" => Len(df_team) = 0
    /\ pc = "records" =>
          \A r \in records[1] :
             /\ \E p \in Swims : SourceOf(r, p) /\ ~Unusable(p)
             /\ \A p \in Swims : SourceOf(r, p) => ~Unusable(p)
             /\ \A p \in Swims :
                   (~Unusable(p) /\ InBucket(p, r.event_code, r.age_group))
                      => NotSlowerThan(r.time_seconds, p)
    /\ pc = "top_n" =>
          \A l \in top_n[1] : \A k \in 1..Len(l.entries) :
             /\ \E p \in Swims : SourceOf(l.entries[k], p) /\ ~Unusable(p)
             /\ \A p \in Swims : SourceOf(l.entries[k], p) => ~Unusable(p)
    /\ (pc = "annual" /\ annual # None) =>
          \A r \in annual[1].season_records \cup annual[1].team_records :
             \A p \in Swims : SourceOf(r, p) => ~Unusable(p)

\* records were computed from a table that holds a swim without a time in
\* the event of a record and a faster swim whose event has a null parse
C14_Witness ==
    /\ pc = "records"
    /\ \E r \in records[1], p, q \in Swims :
          /\ InEvent(p, r.event_code) /\ Norm(p).time_seconds.kind = "inf"
          /\ Norm(q).event_code = None /\ Finite(q)
          /\ Norm(q).time_seconds.val < r.time_seconds.val

\* swim p of the bucket of entry s is dated before the season of the command
BeforeSeason(p, s) ==
    /\ InBucket(p, s.event_code, s.age_group) /\ Finite(p)
    /\ df[Norm(p).row].SwimDate.ok
    /\ YearOf(df[Norm(p).row].SwimDate.day) < gen_args[1].season

\* C15 (as claimed): in an annual summary a season-best entry is listed as a
\* new record exactly when its time equals or beats every swim of its bucket
\* dated before the season, in particular when there is no such swim.
C15_SeasonNewRecord ==
    (pc = "annual" /\ annual # None) =>
        \A s \in annual[1].season_records :
            s \in annual[1].new_records <=>
               \A p \in Swims : BeforeSeason(p, s) => NotSlowerThan(s.time_seconds, p)

\* ------------------------------------- vocabulary of the normalizer claims
Called(f) == pc \in {"returned", "raised"} /\ fn_in[1].fn = f
Arg == fn_in[1].arg
Ret == fn_out[1]
StrokeNames ==
    { << "f", "r", "e", "e" >>, << "b", "a", "c", "k" >>, << "b", "r", "e", "a", "s", "t" >>, << "f", "l", "y" >>, << "i", "m" >> }
CourseNames == { << "s", "c", "y" >>, << "l", "c", "m" >>, << "s", "c", "m" >> }
\* the tokens of the argument, when it is a text
ArgTokens == IF Arg = NaN THEN << >> ELSE Split(Arg)

\* C22 (as claimed): parse_api_event returns for every input either the
\* null parse or a triple whose distance is a string of digits, whose stroke
\* is one of free/back/breast/fly/im and whose course is one of scy/lcm/scm;
\* an unrecognized stroke token or a malformed string gives the null parse;
\* no input raises; "50 FR SCY" gives ("50", "free", "scy").
C22_EventParsing ==
    Called("parse_api_event") =>
        /\ pc = "returned"
        /\ \/ Ret = [distance |-> None, stroke |-> None, course |-> None]
           \/ /\ Ret.distance # None /\ Ret.stroke # None /\ Ret.course # None
              /\ Len(Ret.distance[1]) > 0 /\ IsDigits(Ret.distance[1])
              /\ Ret.stroke[1] \in StrokeNames
              /\ Ret.course[1] \in CourseNames
        /\ Len(ArgTokens) < 3 => Ret.distance = None
        /\ (Len(ArgTokens) >= 2 /\ StrokeMap(Upper(ArgTokens[2])) = None)
              => Ret.distance = None
        /\ Arg = << "5", "0", " ", "F", "R", " ", "S", "C", "Y" >> =>
              Ret = [distance |-> Some(<< "5", "0" >>),
                     stroke |-> Some(<< "f", "r", "e", "e" >>),
                     course |-> Some(<< "s", "c", "y" >>)]

\* the colon-separated fields of a time string
ArgFields == SplitAt(Strip(Arg), ":")
\* a field of the form SS or SS.hh
PlainField(f) ==
    LET parts == SplitAt(Strip(f), ".")
    IN  /\ Len(parts) <= 2 /\ Len(parts[1]) > 0
        /\ \A k \in 1..Len(parts) : IsDigits(parts[k])
\* hundredths of a second a plain field stands for
FieldValue(f) ==
    LET parts == SplitAt(Strip(f), ".")
        hh == IF Len(parts) = 2 THEN parts[2] ELSE << >>
    IN  Numeral(parts[1]) * 100 + Numeral(SubSeq(hh \o << "0", "0" >>, 1, 2))
\* the argument has one of the forms SS.hh, MM:SS.hh, HH:MM:SS.hh
TimeForm ==
    /\ Arg # NaN /\ Len(ArgFields) \in 1..3
    /\ \A k \in 1..Len(ArgFields) : PlainField(ArgFields[k])
ExpectedTime ==
    LET n == Len(ArgFields)
    IN  FieldValue(ArgFields[n])
        + (IF n >= 2 THEN 60 * FieldValue(ArgFields[n - 1]) ELSE 0)
        + (IF n = 3 THEN 3600 * FieldValue(ArgFields[1]) ELSE 0)

\* C23 (as claimed): convert_time_to_seconds returns seconds + 60*minutes +
\* 3600*hours for strings of the forms SS.hh, MM:SS.hh and HH:MM:SS.hh and
\* positive infinity for every other input; the result is never negative
\* and the function never raises.
C23_TimeParsing ==
    Called("convert_time_to_seconds") =>
        /\ pc = "returned"
        /\ TimeForm => Ret = [kind |-> "num", val |-> ExpectedTime]
        /\ ~TimeForm => Ret = [kind |-> "inf", val |-> 0]
        /\ Ret.kind \in {"num", "inf"} /\ Ret.val >= 0

\* the argument is a number: its whole part and its hundredths
AgeIsNumber == Arg # NaN /\ PlainField(Arg)
\* C24 (as claimed): determine_age_group maps every numeric age to exactly
\* one band - at most 10 to 10U, 11..12 to 11-12, 13..14 to 13-14, 15..16
\* to 15-16, 17..18 to 17-18, anything above 18 to Open - and every
\* non-numeric age to Open; it always returns one of the six age groups.
C24_AgeBucketing ==
    Called("determine_age_group") =>
        /\ pc = "returned"
        /\ Ret \in { AGE_GROUPS[k] : k \in 1..Len(AGE_GROUPS) }
        /\ AgeIsNumber =>
              LET a == FieldValue(Arg)
              IN  /\ a <= 1000 => Ret = "10U"
                  /\ (1100 <= a /\ a <= 1200) => Ret = "11-12"
                  /\ (1300 <= a /\ a <= 1400) => Ret = "13-14"
                  /\ (1500 <= a /\ a <= 1600) => Ret = "15-16"
                  /\ (1700 <= a /\ a <= 1800) => Ret = "17-18"
                  /\ a > 1800 => Ret = "Open"
        /\ (Arg = NaN \/ Arg \in { << "a", "b", "c" >>, << >>, << "n", "a", "n" >> })
              => Ret = "Open"

\* C25: during the walk of one career seen_other_club starts false, becomes
\* true only when an other-club swim positioned before the first-team-swim
\* index (or at any position when the career has no team swim) is processed,
\* never returns to false, and is not changed by a swim at or after the
\* first-team-swim index nor by an unattached, team or Unknown swim.
C25_SeenOtherClub ==
    /\ []((pc = "loop" /\ idx = 1) => ~seen_other_club)
    /\ [][ (pc = "loop" /\ idx <= Len(df)) =>
             /\ (~seen_other_club /\ seen_other_club') =>
                   /\ OtherClubSwim(idx)
                   /\ (first_team_idx = None \/ idx < first_team_idx[1])
             /\ seen_other_club => seen_other_club'
             /\ (first_team_idx # None /\ idx >= first_team_idx[1])
                   => (seen_other_club' = seen_other_club)
             /\ ~OtherClubSwim(idx) => (seen_other_club' = seen_other_club)
         ]_vars

\* an other-club swim walked after the first team swim left the flag false
C25_Witness ==
    /\ pc = "loop" /\ Len(cls) >= 2
    /\ first_team_idx = Some(1)
    /\ OtherClubSwim(2)
    /\ ~seen_other_club

\* C26: a swim is labeled Probationary only if it is positioned strictly
\* before the first-team-swim index of a career that has a team swim.
C26_ProbationaryBeforeJoining ==
    \A i \in Walked :
        cls[i].category = "Probationary" => BeforeFirstTeam(i)

\* an unattached swim inside the window of dates, but walked after the first
\* team swim and after an other-club swim, is not Probationary
C26_Witness ==
    \E i \in Walked :
        /\ UnattachedSwim(i) /\ ~IsHighSchool(TeamText(i))
        /\ first_team_idx # None /\ i > first_team_idx[1]
        /\ OtherClubBefore(i) /\ InWindow(i)
        /\ cls[i].category # "Probationary"

\* the affiliation names the team and also holds the word "unattached"
TeamAndUnattached(i) == IsTeamSwim(TeamText(i)) /\ IsUnattached(TeamText(i))

\* C29: a swim whose affiliation contains both a configured team name and
\* the word "unattached" is labeled Official with decision include, whatever
\* the Decision Set, and it counts as a team swim for the first-team-swim
\* index.
C29_TeamWinsOverUnattached ==
    \A i \in Walked :
        TeamAndUnattached(i) =>
            /\ cls[i].category = "Official"
            /\ cls[i].decision = "include"
            /\ first_team_idx # None /\ first_team_idx[1] <= i

\* such a swim is the first team swim of its career and is kept although
\* every category is excluded
C29_Witness ==
    \E i \in Walked :
        /\ TeamAndUnattached(i)
        /\ first_team_idx = Some(i)
        /\ \A c \in Categories : decisions[c] = "exclude"
        /\ cls[i].decision = "include"

\* the run has nothing to classify: no swimmer file, or a file of zero swims
EmptyInput == swimmer_files = 0 \/ Len(df) = 0

\* C21 (as claimed): a classify run over a team with no swimmer files, or
\* over swimmer files that all hold zero swims, terminates normally with
\* empty official and excluded outputs instead of raising.
C21_EmptyInputNoError ==
    EmptyInput =>
        /\ pc # "raised"
        /\ official_dir = None /\ excluded_dir = None

\* the rows a file of an output directory holds
RowsIn(dir) == IF dir = None THEN { } ELSE { dir[1][k] : k \in 1..Len(dir[1]) }
\* the file a directory holds exactly when the partition is not empty
FileOf(part) == IF part = << >> THEN None ELSE Some(part)

\* C27 (as claimed): after any sequence of classify runs over the same
\* swimmer files, possibly with different Decision Sets, the official and
\* excluded directories hold exactly the official and excluded partitions of
\* the most recent run: no swim is in both directories and no file of an
\* earlier run survives.
C27_OutputsTrackLatestRun ==
    pc = "finished" =>
        /\ official_dir = FileOf(result.official)
        /\ excluded_dir = FileOf(result.excluded)
        /\ RowsIn(official_dir) \cap RowsIn(excluded_dir) = { }

\* C28 (as claimed): the per-category counts _analyze_swims shows before the
\* user decides (high_school, probationary, college, misc_unattached) equal
\* the per-category counts _classify_swimmer then produces over the same
\* file.
C28_AnalysisAgrees ==
    (pc \in {"done", "finished"} /\ calls > 0 /\ analysis # None) =>
        \A c \in Categories : analysis[1][c] = result.stats[c]

\* the file name ends with the swimmer's ID, after a hyphen or alone
Carries(f, id) ==
    \/ f = id
    \/ /\ Len(f) > Len(id)
       /\ SubSeq(f, Len(f) - Len(id), Len(f)) = << "-" >> \o id
Cached(id) == \E f \in swimmers_dir : Carries(f, id)
\* the IDs of the individual swimmers of the roster
RosterIds ==
    { swimmers_df[k].id : k \in 1..Len(swimmers_df) } \ { << "0" >> }
IdsOf(q) == { q[k].id : k \in 1..Len(q) }

====
